CONSTANTS
    Users = {"u1", "u2"}
    Strangers = {"x"}
    IdSpace = 4
    MaxRefusals = 3
SPECIFICATION LinkSpec
INVARIANTS TypeOK DataAuthenticated
PROPERTIES IdentitySettled LinkComesUp
\* A session that was closed takes no more frames.
CHECK_DEADLOCK FALSE
