CONSTANTS
    c = c  d = d  e = e
    Cluster = {c, d, e}
    Managed = {c}
    Misreported = {e}
    Alternate = TRUE
    MaxGoals = 2
    MaxFailures = 2
SPECIFICATION FairSpec
INVARIANT TypeOK
PROPERTIES ConnectIsTrue ForeignKept LeftoversStay EventuallyReached EventuallyListed
CHECK_DEADLOCK FALSE
