CONSTANTS
    w1 = w1
    c1 = c1
    Cluster = {c1}
    a = a  b = b
    Object = {a}
    Finalized = {a}
    Listed = {}
    Retained = {a}
    Watcher = {w1}
    Sequential = FALSE
    EnableObjectCleaner = TRUE
    PageSize = 10
    MaxVersions <- Four
    MaxFailures = 1
    MaxUnwatches = 1
    ClusterOf <- OneCluster
    KindOf <- OwnKinds
    WatcherCluster <- WatchesOne
SPECIFICATION FairSpec
PROPERTY EventuallyShown
CHECK_DEADLOCK FALSE
