CONSTANTS
    PSKs <- MCPSKs
    Credentials <- MCCredentials
    SAPayloads <- MCSAPayloads
    Profiles <- MCProfiles
    MaxFaults = 3
SPECIFICATION Spec
CHECK_DEADLOCK FALSE
INVARIANTS
    TypeOK
    EndsInStep
    ChildKept
    PeerIsProved
