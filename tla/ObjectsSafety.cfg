CONSTANTS
    w1 = w1
    c1 = c1
    Cluster = {c1}
    a = a  b = b
    Object = {a, b}
    Finalized = {a, b}
    Listed = {a, b}
    Retained = {b}
    Watcher = {w1}
    Sequential = TRUE
    EnableObjectCleaner = TRUE
    PageSize = 10
    MaxVersions <- ThreeAndTwo
    MaxFailures = 1
    MaxUnwatches = 1
    ClusterOf <- OneCluster
    KindOf <- OwnKinds
    WatcherCluster <- WatchesOne
SPECIFICATION Spec
INVARIANTS TypeOK SettledMatches GoneWhenSettled InHandInv
PROPERTY StoreMirrors
CHECK_DEADLOCK FALSE
