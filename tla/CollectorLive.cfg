CONSTANTS
    n1 = n1  n2 = n2  c1 = c1  c2 = c2  d1 = d1
    EmptyName = n2
    NoCluster = NoCluster
    Name <- OneName
    Cluster <- TwoValues
    NameOf <- TwoValuesOf
    MaxChildren = 4
    MaxPolls = 2
    MaxFailures = 1
SPECIFICATION FairSpec
PROPERTIES EventuallyWatched WorkerFinishes
CHECK_DEADLOCK FALSE
