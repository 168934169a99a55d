CONSTANTS
    WordBits = 2
    Words = 2
    SeqMax = 5
    MaxEncrypts = 7
    Suites = {"AEAD", "CBC"}
    Bodies = {"inner", "dummy", "badpad", "unaligned"}
    Addrs = {a1, a2}
    NoPkt = NoPkt
SPECIFICATION Spec
INVARIANTS TypeOK WindowExact EdgeIsAuthentic SeqNotReused DeliveredOnce
PROPERTY PeerFollowsFreshPackets
CHECK_DEADLOCK FALSE
