CONSTANTS
    p1 = p1
    p2 = p2
    p3 = p3
    NumServers = 2
    MaxChildren <- MCMaxChildren
    GlobalMaxChildren = 2
    Pids <- MCPids
    Backlog = 1
    ShutdownTimeout = 2
    AcceptMayFail = FALSE
SPECIFICATION Spec
INVARIANT TypeOK
INVARIANT PerServerLimit
INVARIANT ChildAccounting
INVARIANT NoOrphanAtExit
