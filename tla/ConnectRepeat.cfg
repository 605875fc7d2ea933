CONSTANTS
    c = c  d = d  e = e
    Cluster = {c}
    Managed = {c}
    Misreported = {}
    Alternate = FALSE
    MaxGoals = 1
    MaxFailures = 1
SPECIFICATION FairSpec
PROPERTY EventuallyDisconnected
CHECK_DEADLOCK FALSE
