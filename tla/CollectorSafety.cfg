CONSTANTS
    n1 = n1  n2 = n2  c1 = c1  c2 = c2  d1 = d1
    EmptyName = n2
    NoCluster = NoCluster
    Name <- TwoNames
    Cluster <- ThreeValues
    NameOf <- ThreeValuesOf
    MaxChildren = 3
    MaxPolls = 2
    MaxFailures = 1
SPECIFICATION Spec
INVARIANTS NeverForgotten CancelledRecordHasFailed IInv
PROPERTY StraysStay
SYMMETRY ValuesOfOneName
CHECK_DEADLOCK FALSE
