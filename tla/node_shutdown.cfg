CONSTANTS
    pub = pub
    sub = sub
    svc = svc
    param = param
    Order <- StopOrder
    MayHang = {sub}
    Users = {u, w}
    Waiters = {w}
SPECIFICATION NodeFairSpec
INVARIANTS
    TokenDelays
PROPERTIES
    ShutdownEnds
