CONSTANTS
    MsgIDs = {1, 2, 3}
    FragIDs = {1}
    InitialInterval = 1
    MaxInterval = 3
    MaxRetries = 2
    Loops = {p500, p4500}
    Scenarios <- MCScenarios
    MaxFaults = 2
SPECIFICATION Spec
CHECK_DEADLOCK FALSE
INVARIANTS
    TypeOK
    DeliveredIntact
    GivesUpLast
PROPERTIES
    ExchangeSettles
