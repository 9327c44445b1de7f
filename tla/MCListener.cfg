CHECK_DEADLOCK FALSE
CONSTANTS
    Neighbors <- MCNeighbors
    Remote = {5, 7, 8, 9}
    Sockets <- MCSockets
    Connections = 4
SPECIFICATION FairListenerSpec
INVARIANTS
    ListenerTypeOK
PROPERTIES
    Individual
    AsConfigured
    Served
