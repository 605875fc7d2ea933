CONSTANTS
    c1 = c1  ns1 = ns1  admin = admin  b1 = b1  b2 = b2  k1 = k1  u1 = u1
    x = x  y = y
    NoNamespace = NoNamespace
    Role <- OneRole
    Binding <- TwoBindings
    Object <- TwoObjects
    Users = {u1}
    Limits = {0, 1}
    MaxEvents = 1
    MaxQueries = 1
SPECIFICATION Spec
INVARIANTS TypeOK GrantedOnly ShowsGranted MemoRight StoreSettles
CHECK_DEADLOCK FALSE
