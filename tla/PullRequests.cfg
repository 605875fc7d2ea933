CONSTANTS
    r1 = r1  r2 = r2  r3 = r3
    c1 = c1  c2 = c2  k = k  n = n
    Request = {r1, r2, r3}
    Named = {r1}
    Cluster = {c1, c2}
    Name = {n}
    NameOf <- SameName
    NoName = NoName
    Kustomization = {k}
    Profile = {}
    Value <- SmallValues
    Common = {"bases"}
    Required = {}
    Provider = {"github", "gitlab"}
    Absent = Absent
    None = None
    MaxFailures = 1
SPECIFICATION Spec
INVARIANTS TypeOK ProposesRequest BaseFollows
PROPERTY LandsAsAsked
SYMMETRY Requests
CHECK_DEADLOCK FALSE
