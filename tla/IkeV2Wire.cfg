CONSTANTS
    Loops = {p500, p4500}
    PSKs <- MCPSKs
    Passwords <- MCPasswords
    Configs <- MCConfigs
    SAPayloads <- MCSAPayloads
    Profiles <- RfcProfiles
    MaxFaults = 0
SPECIFICATION Spec
CHECK_DEADLOCK FALSE
PROPERTIES
    RfcClientGetsThrough
