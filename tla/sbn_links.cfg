CONSTANTS
    Pubs = {p, q}
    Latchers = {p}
    Refusers = {q}
    Handles = {h1, h2}
    Capacity = 1
    MaxSends = 2
    MaxStarts = 1
    MaxBreaks = 1
    None = None
SPECIFICATION AskedSpec
INVARIANTS
    ConnectedListed
    InOrder
    StoreCurrent
PROPERTIES
    OneLinkEach
    LinksSettle
