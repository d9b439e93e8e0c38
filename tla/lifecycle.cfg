SPECIFICATION FairSpec
CONSTANTS
    Loop <- MCLoops
    FairWatcher = "fair-watcher"
    Buyback = "buyback"
    Queue = {"mint", "release"}
    MaxRequests = 2
    MaxUpsets = 3
INVARIANT
    ConnectionsOutliveWork
PROPERTIES
    NoTickAfterAbort
    ServesAgain
