CONSTANTS
    Conns = {c1, c2}
    Ids = {a}
    Latching = TRUE
    Capacity = 1
    MaxSends = 2
    None = None
SPECIFICATION FairSpec
INVARIANTS
    IdsTracked
    NoLiveMessageLost
PROPERTIES
    StreamSpec
    TasksKeepUp
    ConnectionsEnd
