SPECIFICATION Spec
CONSTANTS
    p1 = p1
    p2 = p2
    Peer = {p1, p2}
    LocalOps <- BothOps
    HumanEdits <- Modify
    Racing = FALSE
    Faults <- Offline
    MaxEdits = 3
    MaxFaults = 1
SYMMETRY PeerSymmetry
PROPERTIES HumanEditsWin SyncedIsEqualIfReached
INVARIANT DaemonsFollowUnlessMissed
