CONSTANTS
    Handlers = {h1, h2}
    Keys = {"k"}
    RemoteIDs = {1}
    IdSpace = 3
    IPs = {1}
    MaxTunnels = 1
    MaxSessions = 1
SPECIFICATION Spec
INVARIANTS NoAddressLost
CHECK_DEADLOCK FALSE
