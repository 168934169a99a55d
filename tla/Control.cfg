CONSTANTS
    Ends <- MCEnds
    Modulus = 8
    MaxRetries = 1
    MaxSends <- MCMaxSends
    MaxOutstanding = 2
    Lifetime = 3
SPECIFICATION FairSpec
INVARIANTS TypeOK InOrderOnce NothingLost
PROPERTY AckedOrGivenUp
CHECK_DEADLOCK FALSE
