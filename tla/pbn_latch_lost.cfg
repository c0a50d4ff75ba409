CONSTANTS
    Conns = {c1}
    Ids = {a}
    Latching = TRUE
    Capacity = 2
    MaxSends = 2
    None = None
SPECIFICATION Spec
INVARIANTS
    LatchedDelivered
