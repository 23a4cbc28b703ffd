\* A stop signal or a child exit handled at any point of the main loop.
CONSTANTS
    p1 = p1
    p2 = p2
    p3 = p3
    NumServers = 2
    MaxChildren <- MCMaxChildren
    GlobalMaxChildren = 2
    Pids <- MCPids
    Backlog = 1
    ShutdownTimeout = 2
    AcceptMayFail = FALSE
SPECIFICATION Spec
PROPERTY SignalsActedOn
