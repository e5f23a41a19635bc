CONSTANTS
    Connections = {c1, c2, c3}
    APP_SERVER_MAX_CONNECTIONS = 2
    None = None
SPECIFICATION FairSpec
INVARIANTS PermitsBalance SocketsAreOwned ContextsAreFreed HitsAreCounted
PROPERTIES ConnectionsAreAccepted
CHECK_DEADLOCK FALSE
