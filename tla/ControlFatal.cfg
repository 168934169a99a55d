CONSTANTS
    Ends <- MCEnds
    Modulus = 8
    MaxRetries = 2
    MaxSends <- MCLiveSends
    MaxOutstanding = 2
    Lifetime = 3
SPECIFICATION Spec
INVARIANT GivingUpIsNotFatal
CHECK_DEADLOCK FALSE
