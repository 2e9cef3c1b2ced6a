SPECIFICATION FairSpec
CONSTANTS
    p1 = p1
    p2 = p2
    Peer = {p1}
    LocalOps <- PeerOp
    HumanEdits <- Modify
    Racing = TRUE
    Faults <- Deadly
    MaxEdits = 2
    MaxFaults = 2
PROPERTY CatchesUpUnlessLocked
