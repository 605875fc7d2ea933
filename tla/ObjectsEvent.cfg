CONSTANTS
    w1 = w1
    c1 = c1
    Cluster = {c1}
    a = a  b = b
    Object = {a}
    Finalized = {}
    Listed = {}
    Retained = {a}
    Watcher = {w1}
    Sequential = TRUE
    EnableObjectCleaner = TRUE
    PageSize = 10
    MaxVersions <- Two
    MaxFailures = 0
    MaxUnwatches = 0
    ClusterOf <- OneCluster
    KindOf <- OwnKinds
    WatcherCluster <- WatchesOne
SPECIFICATION FairSpec
PROPERTY EventuallyRemoved
CHECK_DEADLOCK FALSE
