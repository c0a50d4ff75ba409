CONSTANTS
    Params = {ns, x}
    Below <- OneInTheOther
    ns = ns
    x = x
    Values = {v, empty}
    Empty = empty
    Absent = Absent
    Clients = {c1, c2}
    Requests <- AllOfOne
    Failing = {"subscribe", "unsubscribe", "get", "set", "delete", "has", "read"}
    NotifySelf = {TRUE, FALSE}
    MayCancel = TRUE
    MaxChanges = 2
SPECIFICATION FairSpec
INVARIANTS
    SubscriptionBacked
    CacheCurrent
    ListedTracked
PROPERTIES
    CallsEnd
