SPECIFICATION FairUpdaterSpec
CONSTANTS
    r1 = r1
    Requests <- OneRequest
    Catalog <- TwoChannels
    Ascending = FALSE
    Withdrawals = TRUE
    Start <- V10
    AutoUpdate = TRUE
    Channel = "candidate"
    Channels <- BothChannels
    Forces <- AnyForce
    MaxRequests = 1
    MaxFailures = 2
INVARIANTS
    StableIsStable
PROPERTIES
    UpToDate
