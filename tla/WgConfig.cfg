CONSTANTS
    MaxPeers = 3
    AddrLists <- MCAddrLists
    MaxEps = 2
    MaxOverrides = 2
    MaxBad = 1
    None = None
SPECIFICATION Spec
INVARIANTS
    TypeOK EndpointOrder MeshComplete
CHECK_DEADLOCK FALSE
