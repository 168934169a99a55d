CONSTANTS
    V1 = {m1}
    V2 = {s1}
    Owners = {m1, s1}
    SPIs = {low, a, b}
    Reserved = {low}
    Addresses = {ip1}
    Identities = {"alice"}
    Workers = {w1, w2}
    MaxChildren = 2
SPECIFICATION Spec
SYMMETRY Symmetry
CHECK_DEADLOCK FALSE
INVARIANTS
    TypeOK
    IdentityMapExact
    EvictionComplete
    RouteMatchesBinding
PROPERTIES
    QuietAfterEviction
