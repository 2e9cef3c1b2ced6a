SPECIFICATION FairSpec
CONSTANTS
    a1 = a1
    a2 = a2
    a3 = a3
    r1 = r1
    r2 = r2
    ASN = {a1, a2}
    Req = {r1}
    Requests <- NoOps
    PeerInfos <- OneInfo
    Initial = {a1, a2}
    InitialInfo <- HostPeer
    MaxPeers = 0
    Open = TRUE
    ServerURL = TRUE
    RecoverySlots = 1
    Faults <- BootFaults
    MaxCrashes = 2
CHECK_DEADLOCK FALSE
INVARIANT StrippedIsReported
PROPERTY BootBringsTunnelsUp
PROPERTY BootCompletes
