SPECIFICATION Spec
CONSTANTS
    a1 = a1
    a2 = a2
    a3 = a3
    r1 = r1
    r2 = r2
    ASN = {a1}
    Req = {r1, r2}
    Requests <- AllOps
    PeerInfos <- OneInfo
    Initial = {a1}
    InitialInfo <- HostPeer
    MaxPeers = 0
    Open = TRUE
    ServerURL = TRUE
    RecoverySlots = 3
    Faults <- HandlerFaults
    MaxCrashes = 1
SYMMETRY ASNSymmetry
INVARIANT MismatchHasCause
INVARIANT RepliesHonest
