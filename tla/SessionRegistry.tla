-------------------------- MODULE SessionRegistry --------------------------
(***************************************************************************)
(* What the connection layer of the central server promises to everything  *)
(* that sends commands to a site: one entry per site in the connectedSites *)
(* map, overwritten by each authentication, and never removed while the    *)
(* socket it names is still connected.  Connection is the detailed         *)
(* specification that implements it; CommandChannel is built on top of it. *)
(*                                                                         *)
(* One site is modelled: every map involved is keyed by the site.          *)
(***************************************************************************)
CONSTANTS
    Socket,      \* the socket objects the site's agent may be connected with
    NoSocket     \* absence of an entry

ASSUME NoSocketAssumption == NoSocket \notin Socket

VARIABLES
    registered,  \* the site's entry in connectedSites, or NoSocket
    alive,       \* the sockets whose server end is connected
    identified,  \* the live sockets that carry the site's id
    ready        \* the identified sockets whose agent handlers are attached

regVars == <<registered, alive, identified, ready>>

RegistryTypeOK ==
    /\ registered \in Socket \cup {NoSocket}
    /\ alive \subseteq Socket
    /\ identified \subseteq alive
    /\ ready \subseteq identified

RegistryInit ==
    /\ registered = NoSocket
    /\ alive = {}
    /\ identified = {}
    /\ ready = {}

\* A new socket connects; the identity is not in use any more.
Open(s) ==
    /\ s \notin alive
    /\ registered # s
    /\ alive' = alive \cup {s}
    /\ UNCHANGED <<registered, identified, ready>>

\* authenticateAgent sets the socket's siteId and stores it in connectedSites.
\* The entry is overwritten whatever it was; the socket may be dead by then.
Register(s) ==
    /\ registered' = s
    /\ identified' = identified \cup ({s} \cap alive)
    /\ UNCHANGED <<alive, ready>>

\* authenticateAgent attaches the event handlers of a live socket.
Attach(s) ==
    /\ s \in identified
    /\ ready' = ready \cup {s}
    /\ UNCHANGED <<registered, alive, identified>>

\* A socket closes.  Only its own entry goes away with it.
Close(s) ==
    /\ s \in alive
    /\ alive' = alive \ {s}
    /\ identified' = identified \ {s}
    /\ ready' = ready \ {s}
    /\ registered' = IF registered = s THEN NoSocket ELSE registered

\* A dead entry is evicted (zombie clean-up).
Evict ==
    /\ registered # NoSocket
    /\ registered \notin alive
    /\ registered' = NoSocket
    /\ UNCHANGED <<alive, identified, ready>>

\* The server process restarts.
Restart ==
    /\ registered' = NoSocket
    /\ alive' = {}
    /\ identified' = {}
    /\ ready' = {}

RegistryNext ==
    \/ \E s \in Socket : Open(s) \/ Register(s) \/ Attach(s) \/ Close(s)
    \/ Evict
    \/ Restart

RegistrySpec == RegistryInit /\ [][RegistryNext]_regVars
=============================================================================
