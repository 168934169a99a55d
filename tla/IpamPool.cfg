CONSTANTS
    Size = 4
    Clients = {c1, c2, c3, c4, c5}
    NoAddr = NoAddr
SPECIFICATION PoolSpec
INVARIANTS PoolTypeOK BitmapIsLeases LeasesDisjoint
PROPERTY ImplementsAddressPool
