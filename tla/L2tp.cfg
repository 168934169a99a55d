CONSTANTS
    Handlers = {h1, h2}
    Keys = {"k"}
    RemoteIDs = {1}
    IdSpace = 3
    IPs = {1}
    MaxTunnels = 2
    MaxSessions = 2
SPECIFICATION Spec
INVARIANTS TypeOK AddressExclusive DeadTunnelIsEmpty TunnelReachable
PROPERTY NothingRevived
SYMMETRY HandlerSymmetry
\* The process ends, by a crash or with both handlers waiting after Close.
CHECK_DEADLOCK FALSE
