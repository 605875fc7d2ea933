CONSTANTS
    c1 = c1  x = x  y = y
    Cluster = {c1}
    NoCluster = NoCluster
    Chart = {x, y}
    NoChart = NoChart
    Unparsable = {y}
    Faults = {"config", "start", "index", "purge", "chart", "drop"}
    MaxWatchers = 2
    MaxPolls = 2
    MaxEdits = 1
    MaxFailures = 1
    MaxCrashes = 1
SPECIFICATION FairSpec
INVARIANTS TypeOK CacheFollows PurgeFollows NoDuplicates GoneWithCluster
PROPERTY EventuallyCached
CHECK_DEADLOCK FALSE
