CONSTANTS
    Loops = {p500, p4500}
    PSKs <- MCPSKs
    Passwords <- MCPasswords
    Configs <- MCConfigs
    SAPayloads <- MCSAPayloads
    Profiles <- MCProfiles
    MaxFaults = 2
SPECIFICATION Spec
CHECK_DEADLOCK FALSE
INVARIANTS
    TypeOK
    OneInitialChild
    BothEndsAgree
PROPERTIES
    ClientGetsThrough
