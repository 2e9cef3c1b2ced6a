SPECIFICATION FairSpec
CONSTANTS
    Nodes <- EveryNode
    Enabled = FALSE
    Actions <- EveryAction
    Faults <- NetworkAndRestart
    MaxFaults = 3
INVARIANTS
    CredentialsKept
PROPERTIES
    EditsReachRepoUnlessUnserved
    BootstrapCompletesUnlessEmpty
CHECK_DEADLOCK FALSE
