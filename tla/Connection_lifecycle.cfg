CONSTANTS
    Socket = {s1, s2}
    NoSocket = NoSocket
    MaxRestarts = 1
SPECIFICATION FairSpec
PROPERTY ZombieEntryEvicted
PROPERTY DbEventuallyOffline
PROPERTY DbEventuallyOnline
INVARIANT TypeOK
INVARIANT OnlyVerifiedSockets
PROPERTY ImplementsRegistry
