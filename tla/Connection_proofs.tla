-------------------------- MODULE Connection_proofs --------------------------
(***************************************************************************)
(* Type correctness of Connection, the inductive invariant about verified  *)
(* sockets, and the refinement of SessionRegistry, for any set of sockets  *)
(* and any number of restarts.                                             *)
(***************************************************************************)
EXTENDS Connection, TLAPS

\* Every status update the code issues is a well-typed write.
LEMMA WritesTyped ==
    ASSUME NEW s \in Socket \cup {NoSocket}, NEW by \in Issuer
    PROVE  Offline(s, by) \in Write /\ Online(s, by) \in Write
BY DEF Offline, Online, Write

\* What handleDisconnection leaves behind is well typed.
LEMMA DisconnectTyped ==
    ASSUME TypeOK, NEW s \in Socket
    PROVE  DisconnectMap(s) \in Socket \cup {NoSocket} /\ DisconnectWrites(s) \subseteq Write
BY WritesTyped DEF TypeOK, DisconnectMap, DisconnectWrites, Issuer

\* handleDisconnection keeps the entry, the pong and the writes well typed.
LEMMA HandleDisconnectionTyped ==
    ASSUME TypeOK, NEW s \in Socket, HandleDisconnection(s)
    PROVE  /\ connectedSites' \in Socket \cup {NoSocket}
           /\ lastPong' \in Pong
           /\ dbWrites' \subseteq Write
BY DisconnectTyped DEF TypeOK, HandleDisconnection, mapVars, Pong

\* Closing a socket keeps the links and the pings well typed.
LEMMA CloseSocketTyped ==
    ASSUME TypeOK, NEW s \in Socket, CloseSocket(s)
    PROVE  link' \in [Socket -> {"open", "gone", "closed"}] /\ pinged' \subseteq Socket
BY DEF TypeOK, CloseSocket

\* So does the forced clean-up of the registered socket (forceDisconnect).
LEMMA DropRegisteredTyped ==
    ASSUME TypeOK, NEW s \in Socket, DropRegistered(s)
    PROVE  /\ link' \in [Socket -> {"open", "gone", "closed"}] /\ pinged' \subseteq Socket
           /\ connectedSites' \in Socket \cup {NoSocket}
           /\ lastPong' \in Pong
           /\ dbWrites' \subseteq Write
<1>1. Offline(s, "zombie") \in Write /\ Offline(s, "disconnect") \in Write
    BY WritesTyped DEF Issuer
<1> QED BY <1>1, CloseSocketTyped DEF TypeOK, DropRegistered, Pong

\* Type correctness, one step per action of Next.
THEOREM TypeCorrect == Spec => []TypeOK
<1>1. Init => TypeOK
    <2> SUFFICES ASSUME Init PROVE TypeOK
        OBVIOUS
    <2>1. restarts \in 0..MaxRestarts
        BY ConnectionAssumption DEF Init
    <2> QED BY <2>1 DEF Init, TypeOK, Pong
<1>2. TypeOK /\ [Next]_vars => TypeOK'
    <2> SUFFICES ASSUME TypeOK, [Next]_vars PROVE TypeOK'
        OBVIOUS
    <2> USE DEF TypeOK, mapVars, dbVars
    <2>1. ASSUME NEW s \in Socket, Accept(s) PROVE TypeOK'
        BY <2>1 DEF Accept
    <2>2. ASSUME NEW s \in Socket, Authenticate(s) PROVE TypeOK'
        BY <2>2 DEF Authenticate
    <2>3. ASSUME NEW s \in Socket, RefuseUnauthenticated(s) PROVE TypeOK'
        BY <2>3 DEF RefuseUnauthenticated, CloseSocket
    <2>4. ASSUME NEW s \in Socket, RegisterSocket(s) PROVE TypeOK'
        BY <2>4, WritesTyped DEF RegisterSocket, Issuer
    <2>5. ASSUME NEW s \in Socket, RejectCredentials(s) PROVE TypeOK'
        BY <2>5 DEF RejectCredentials, CloseSocket
    <2>6. ASSUME NEW s \in Socket, StatusUpdateFails(s) PROVE TypeOK'
        BY <2>6, DisconnectTyped DEF StatusUpdateFails, CloseSocket, Pong
    <2>7. ASSUME NEW s \in Socket, FinishAuthentication(s) PROVE TypeOK'
        BY <2>7 DEF FinishAuthentication, Pong
    <2>8. ASSUME NEW s \in Socket, PeerVanishes(s) PROVE TypeOK'
        BY <2>8 DEF PeerVanishes
    <2>9. ASSUME NEW s \in Socket, TransportCloses(s) PROVE TypeOK'
        BY <2>9, HandleDisconnectionTyped, CloseSocketTyped DEF TransportCloses
    <2>10. ASSUME NEW s \in Socket, PongCheck(s) PROVE TypeOK'
        BY <2>10 DEF PongCheck, Pong
    <2>11. ASSUME NEW s \in Socket, Heartbeat(s) PROVE TypeOK'
        BY <2>11, WritesTyped DEF Heartbeat, Issuer, Pong
    <2>12. ASSUME NEW s \in Socket, CheckConnectionHealth(s) PROVE TypeOK'
        BY <2>12, DropRegisteredTyped DEF CheckConnectionHealth, Pong
    <2>13. ASSUME NEW s \in Socket, CleanupZombieConnection(s) PROVE TypeOK'
        BY <2>13, DropRegisteredTyped DEF CleanupZombieConnection
    <2>14. CASE SyncSelect
        BY <2>14 DEF SyncSelect
    <2>15. CASE SyncApply
        BY <2>15, WritesTyped DEF SyncApply, SyncWrites, Issuer
    <2>16. ASSUME NEW w \in dbWrites, CommitWrite(w) PROVE TypeOK'
        BY <2>16 DEF CommitWrite, Write
    <2>17. ASSUME NEW w \in dbWrites, LoseWrite(w) PROVE TypeOK'
        BY <2>17 DEF LoseWrite
    <2>18. CASE PongAges
        BY <2>18 DEF PongAges, Pong
    <2>19. CASE LastSeenAges
        BY <2>19 DEF LastSeenAges
    <2>20. CASE ServerRestart
        <3>1. restarts' \in 0..MaxRestarts
            BY <2>20, ConnectionAssumption DEF ServerRestart
        <3> QED BY <2>20, <3>1 DEF ServerRestart, Pong
    <2>21. CASE UNCHANGED vars
        BY <2>21 DEF vars
    <2> HIDE DEF TypeOK
    <2> QED
        BY <2>1, <2>2, <2>3, <2>4, <2>5, <2>6, <2>7, <2>8, <2>9, <2>10, <2>11,
           <2>12, <2>13, <2>14, <2>15, <2>16, <2>17, <2>18, <2>19, <2>20, <2>21
           DEF Next, SocketNext
<1> QED BY <1>1, <1>2, PTL DEF Spec

-----------------------------------------------------------------------------
\* The inductive invariant: OnlyVerifiedSockets needs the types alone.
IInv == TypeOK /\ OnlyVerifiedSockets

\* After a disconnection or a forced clean-up the map holds what it held, or
\* nothing.
LEMMA DisconnectKeepsOrClears ==
    ASSUME NEW s \in Socket, HandleDisconnection(s)
    PROVE  connectedSites' \in {connectedSites, NoSocket}
BY DEF HandleDisconnection, DisconnectMap, mapVars

\* An entry that is kept, or removed, stays verified while no authentication
\* goes back and no socket opens.
LEMMA KeptEntryVerified ==
    ASSUME TypeOK, OnlyVerifiedSockets,
           connectedSites' \in {connectedSites, NoSocket},
           \A s \in Socket : auth'[s] = auth[s],
           \A s \in Socket : link[s] = "closed" => link'[s] = "closed"
    PROVE  OnlyVerifiedSockets'
BY ConnectionAssumption DEF OnlyVerifiedSockets

\* The forced clean-up leaves no entry and reopens no closed socket.
LEMMA DropClosesAndClears ==
    ASSUME TypeOK, NEW s \in Socket, DropRegistered(s)
    PROVE  /\ connectedSites' = NoSocket
           /\ \A t \in Socket : link[t] = "closed" => link'[t] = "closed"
BY DEF TypeOK, DropRegistered, CloseSocket

\* Only verified sockets are in the map and refused sockets are closed: the
\* inductive step, one case per action that the invariant can feel.
THEOREM VerifiedSockets == Spec => []OnlyVerifiedSockets
<1>1. Init => OnlyVerifiedSockets
    BY ConnectionAssumption DEF Init, OnlyVerifiedSockets
<1>2. IInv /\ [Next]_vars => OnlyVerifiedSockets'
    <2> SUFFICES ASSUME TypeOK, OnlyVerifiedSockets, [Next]_vars PROVE OnlyVerifiedSockets'
        BY DEF IInv
    <2>1. ASSUME NEW s \in Socket, Accept(s) PROVE OnlyVerifiedSockets'
        BY <2>1 DEF Accept, Unused, mapVars, TypeOK, OnlyVerifiedSockets
    <2>2. ASSUME NEW s \in Socket, Authenticate(s) PROVE OnlyVerifiedSockets'
        BY <2>2 DEF Authenticate, mapVars, TypeOK, OnlyVerifiedSockets
    <2>3. ASSUME NEW s \in Socket, RefuseUnauthenticated(s) PROVE OnlyVerifiedSockets'
        BY <2>3 DEF RefuseUnauthenticated, CloseSocket, mapVars, TypeOK, OnlyVerifiedSockets
    <2>4. ASSUME NEW s \in Socket, RegisterSocket(s) PROVE OnlyVerifiedSockets'
        BY <2>4 DEF RegisterSocket, TypeOK, OnlyVerifiedSockets
    <2>5. ASSUME NEW s \in Socket, RejectCredentials(s) PROVE OnlyVerifiedSockets'
        BY <2>5 DEF RejectCredentials, CloseSocket, mapVars, TypeOK, OnlyVerifiedSockets
    <2>6. ASSUME NEW s \in Socket, StatusUpdateFails(s) PROVE OnlyVerifiedSockets'
        <3>1. connectedSites' \in {connectedSites, NoSocket}
            BY <2>6 DEF StatusUpdateFails, DisconnectMap, mapVars
        <3> QED BY <2>6, <3>1, ConnectionAssumption
                DEF StatusUpdateFails, CloseSocket, TypeOK, OnlyVerifiedSockets
    <2>7. ASSUME NEW s \in Socket, FinishAuthentication(s) PROVE OnlyVerifiedSockets'
        BY <2>7 DEF FinishAuthentication, TypeOK, OnlyVerifiedSockets
    <2>8. ASSUME NEW s \in Socket, PeerVanishes(s) PROVE OnlyVerifiedSockets'
        BY <2>8, KeptEntryVerified DEF PeerVanishes, mapVars, TypeOK
    <2>9. ASSUME NEW s \in Socket, TransportCloses(s) PROVE OnlyVerifiedSockets'
        BY <2>9, KeptEntryVerified, DisconnectKeepsOrClears DEF TransportCloses, CloseSocket, TypeOK
    <2>10. ASSUME NEW s \in Socket, PongCheck(s) \/ Heartbeat(s) PROVE OnlyVerifiedSockets'
        BY <2>10, KeptEntryVerified DEF PongCheck, Heartbeat, mapVars
    <2>11. ASSUME NEW s \in Socket, CheckConnectionHealth(s) PROVE OnlyVerifiedSockets'
        BY <2>11, KeptEntryVerified, DropClosesAndClears DEF CheckConnectionHealth, mapVars
    <2>12. ASSUME NEW s \in Socket, CleanupZombieConnection(s) PROVE OnlyVerifiedSockets'
        BY <2>12, KeptEntryVerified, DropClosesAndClears DEF CleanupZombieConnection
    <2>13. CASE SyncSelect \/ SyncApply \/ PongAges \/ LastSeenAges \/ UNCHANGED vars
        BY <2>13, KeptEntryVerified DEF SyncSelect, SyncApply, PongAges, LastSeenAges, mapVars, vars
    <2>14. ASSUME NEW w \in dbWrites, CommitWrite(w) PROVE OnlyVerifiedSockets'
        BY <2>14 DEF CommitWrite, mapVars, TypeOK, OnlyVerifiedSockets, Write
    <2>15. ASSUME NEW w \in dbWrites, LoseWrite(w) PROVE OnlyVerifiedSockets'
        BY <2>15, KeptEntryVerified DEF LoseWrite, mapVars
    <2>16. CASE ServerRestart
        BY <2>16, ConnectionAssumption DEF ServerRestart, OnlyVerifiedSockets
    <2> QED
        BY <2>1, <2>2, <2>3, <2>4, <2>5, <2>6, <2>7, <2>8, <2>9, <2>10, <2>11,
           <2>12, <2>13, <2>14, <2>15, <2>16 DEF Next, SocketNext
<1> QED BY <1>1, <1>2, TypeCorrect, PTL DEF Spec, IInv

-----------------------------------------------------------------------------
\* The refinement mapping of ImplementsRegistry, by name.
Alive == {s \in Socket : link[s] # "closed"}
Identified == {s \in Socket : link[s] # "closed" /\ HasSiteId(s)}
Ready == {s \in Socket : link[s] # "closed" /\ auth[s] = "done"}

\* A step that keeps the map, the links and, for the sockets still open, how far
\* the authentication has come in the registry's terms is a stutter of the registry.
LEMMA RegistryStutter ==
    ASSUME UNCHANGED <<connectedSites, link>>,
           \A s \in Socket : link[s] # "closed" =>
              (auth'[s] = "done" <=> auth[s] = "done") /\ (HasSiteId(s)' <=> HasSiteId(s))
    PROVE  UNCHANGED Registry!regVars
<1>1. Ready' = Ready /\ Alive' = Alive
    BY DEF Ready, Alive
<1>2. Identified' = Identified
    BY DEF Identified, HasSiteId
<1> QED BY <1>1, <1>2 DEF Ready, Alive, Identified, Registry!regVars

\* A closing socket that keeps or clears the entry as the guard of
\* handleDisconnection says is a Close step.
LEMMA RegistryClose ==
    ASSUME TypeOK, NEW s \in Socket, link[s] # "closed", CloseSocket(s),
           connectedSites' = IF connectedSites = s THEN NoSocket ELSE connectedSites,
           \A t \in Socket \ {s} : auth'[t] = auth[t]
    PROVE  Registry!Close(s)
<1>1. Alive' = Alive \ {s}
    BY DEF Alive, CloseSocket, TypeOK
<1>2. Ready' = Ready \ {s}
    BY DEF Ready, CloseSocket, TypeOK
<1>3. Identified' = Identified \ {s}
    BY DEF Identified, HasSiteId, CloseSocket, TypeOK
<1> QED BY <1>1, <1>2, <1>3 DEF Alive, Identified, Ready, Registry!Close

\* handleDisconnection of a socket that is in the map or has a siteId.
LEMMA DisconnectEntry ==
    ASSUME TypeOK, OnlyVerifiedSockets, NEW s \in Socket, link[s] # "closed", HandleDisconnection(s)
    PROVE  connectedSites' = IF connectedSites = s THEN NoSocket ELSE connectedSites
BY ConnectionAssumption DEF HandleDisconnection, HasSiteId, DisconnectMap, StaleDisconnect,
   mapVars, OnlyVerifiedSockets, TypeOK

\* The forced clean-up closes the registered socket, or evicts a dead entry.
LEMMA DropIsCloseOrEvict ==
    ASSUME TypeOK, NEW s \in Socket, connectedSites = s, DropRegistered(s), auth' = auth
    PROVE  Registry!Close(s) \/ Registry!Evict
<1>1. CASE link[s] # "closed"
    BY <1>1, RegistryClose DEF DropRegistered
<1>2. CASE link[s] = "closed"
    <2>1. link' = link
        BY <1>2 DEF DropRegistered, CloseSocket, TypeOK
    <2>2. Identified' = Identified
        BY <2>1 DEF Identified, HasSiteId
    <2> QED BY <1>2, <2>1, <2>2, ConnectionAssumption DEF DropRegistered, Identified, Registry!Evict
<1> QED BY <1>1, <1>2

\* Every step of the detailed specification is a step of the registry or a
\* stutter.
LEMMA StepRefines ==
    ASSUME TypeOK, OnlyVerifiedSockets, [Next]_vars
    PROVE  [Registry!RegistryNext]_Registry!regVars
<1> USE DEF mapVars
<1>1. ASSUME NEW s \in Socket, Accept(s) PROVE Registry!Open(s)
    <2>1. Alive' = Alive \cup {s}
        BY <1>1 DEF Accept, Alive, TypeOK
    <2>2. Ready' = Ready
        BY <1>1 DEF Accept, Unused, Ready, TypeOK
    <2>3. Identified' = Identified
        BY <1>1 DEF Accept, Unused, Identified, HasSiteId, TypeOK
    <2> QED BY <1>1, <2>1, <2>2, <2>3 DEF Accept, Unused, Alive, Identified, Ready, Registry!Open
<1>2. ASSUME NEW s \in Socket, Authenticate(s) PROVE UNCHANGED Registry!regVars
    BY <1>2, RegistryStutter DEF Authenticate, HasSiteId, TypeOK
<1>3. ASSUME NEW s \in Socket, RefuseUnauthenticated(s) PROVE Registry!Close(s)
    BY <1>3, RegistryClose DEF RefuseUnauthenticated, OnlyVerifiedSockets, TypeOK
<1>4. ASSUME NEW s \in Socket, RegisterSocket(s) PROVE Registry!Register(s)
    <2>1. Ready' = Ready
        BY <1>4 DEF RegisterSocket, Ready, TypeOK
    <2>2. Identified' = Identified \cup ({s} \cap Alive)
        BY <1>4 DEF RegisterSocket, Identified, Alive, HasSiteId, TypeOK
    <2> QED BY <1>4, <2>1, <2>2 DEF RegisterSocket, Alive, Identified, Ready, Registry!Register
<1>5. ASSUME NEW s \in Socket, RejectCredentials(s)
      PROVE  Registry!Close(s) \/ UNCHANGED Registry!regVars
    <2>1. CASE link[s] # "closed"
        BY <1>5, <2>1, RegistryClose DEF RejectCredentials, OnlyVerifiedSockets, TypeOK
    <2>2. CASE link[s] = "closed"
        BY <1>5, <2>2, RegistryStutter DEF RejectCredentials, HasSiteId, CloseSocket, TypeOK
    <2> QED BY <2>1, <2>2
<1>6. ASSUME NEW s \in Socket, StatusUpdateFails(s)
      PROVE  Registry!Close(s) \/ UNCHANGED Registry!regVars
    <2>1. CASE link[s] # "closed"
        <3>1. connectedSites' = IF connectedSites = s THEN NoSocket ELSE connectedSites
            BY <1>6, <2>1 DEF StatusUpdateFails, DisconnectMap, StaleDisconnect
        <3> QED BY <1>6, <2>1, <3>1, RegistryClose DEF StatusUpdateFails, TypeOK
    <2>2. CASE link[s] = "closed"
        BY <1>6, <2>2, RegistryStutter DEF StatusUpdateFails, HasSiteId, CloseSocket, TypeOK
    <2> QED BY <2>1, <2>2
<1>7. ASSUME NEW s \in Socket, FinishAuthentication(s)
      PROVE  Registry!Attach(s) \/ UNCHANGED Registry!regVars
    <2>1. CASE link[s] # "closed"
        <3>1. Ready' = Ready \cup {s}
            BY <1>7, <2>1 DEF FinishAuthentication, Ready, TypeOK
        <3>2. Identified' = Identified /\ s \in Identified
            BY <1>7, <2>1 DEF FinishAuthentication, Identified, HasSiteId, TypeOK
        <3> QED BY <1>7, <2>1, <3>1, <3>2 DEF FinishAuthentication, Identified, Ready, Registry!Attach
    <2>2. CASE link[s] = "closed"
        <3>1. Ready' = Ready /\ Identified' = Identified
            BY <1>7, <2>2 DEF FinishAuthentication, Ready, Identified, HasSiteId, TypeOK
        <3> QED BY <1>7, <3>1 DEF FinishAuthentication, Ready, Identified, Registry!regVars
    <2> QED BY <2>1, <2>2
<1>8. ASSUME NEW s \in Socket, PeerVanishes(s) PROVE UNCHANGED Registry!regVars
    <2>1. Alive' = Alive /\ Ready' = Ready /\ Identified' = Identified
        BY <1>8 DEF PeerVanishes, Alive, Ready, Identified, HasSiteId, TypeOK
    <2> QED BY <1>8, <2>1 DEF PeerVanishes, Alive, Ready, Identified, Registry!regVars
<1>9. ASSUME NEW s \in Socket, TransportCloses(s) PROVE Registry!Close(s)
    BY <1>9, RegistryClose, DisconnectEntry DEF TransportCloses, TypeOK
<1>10. ASSUME NEW s \in Socket, PongCheck(s) \/ Heartbeat(s) PROVE UNCHANGED Registry!regVars
    BY <1>10, RegistryStutter DEF PongCheck, Heartbeat, HasSiteId
<1>11. ASSUME NEW s \in Socket, CheckConnectionHealth(s)
       PROVE  Registry!Close(s) \/ Registry!Evict \/ UNCHANGED Registry!regVars
    BY <1>11, DropIsCloseOrEvict, RegistryStutter DEF CheckConnectionHealth, HasSiteId
<1>12. ASSUME NEW s \in Socket, CleanupZombieConnection(s)
       PROVE  Registry!Close(s) \/ Registry!Evict
    BY <1>12, DropIsCloseOrEvict DEF CleanupZombieConnection
<1>13. CASE SyncSelect \/ SyncApply \/ PongAges \/ LastSeenAges \/ UNCHANGED vars
    BY <1>13, RegistryStutter DEF SyncSelect, SyncApply, PongAges, LastSeenAges, HasSiteId, vars
<1>14. ASSUME NEW w \in dbWrites, CommitWrite(w) \/ LoseWrite(w) PROVE UNCHANGED Registry!regVars
    BY <1>14, RegistryStutter DEF CommitWrite, LoseWrite, HasSiteId, TypeOK, Write
<1>15. CASE ServerRestart
    <2>1. Alive' = {} /\ Ready' = {} /\ Identified' = {}
        BY <1>15 DEF ServerRestart, Alive, Ready, Identified
    <2>2. Registry!Restart
        BY <1>15, <2>1 DEF ServerRestart, Alive, Ready, Identified, Registry!Restart
    <2> QED BY <2>2 DEF Registry!RegistryNext
<1> QED
    BY <1>1, <1>2, <1>3, <1>4, <1>5, <1>6, <1>7, <1>8, <1>9, <1>10, <1>11,
       <1>12, <1>13, <1>14, <1>15 DEF Next, SocketNext, Registry!RegistryNext

\* The connection layer implements the registry, for every set of sockets.
THEOREM RefinesRegistry == Spec => ImplementsRegistry
<1>1. Init => Registry!RegistryInit
    BY DEF Init, Registry!RegistryInit
<1>2. TypeOK /\ OnlyVerifiedSockets /\ [Next]_vars => [Registry!RegistryNext]_Registry!regVars
    BY StepRefines
<1> QED
    BY <1>1, <1>2, TypeCorrect, VerifiedSockets, PTL
       DEF Spec, ImplementsRegistry, Registry!RegistrySpec
=============================================================================
