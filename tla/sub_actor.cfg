CONSTANTS
    Topics = {t1}
    Pubs = {p, q}
    Early = {q}
    Silent = {q}
    Leavers = {p, q}
    Clients = {c1, c2}
    Guards = {g1, g2}
    Requests = {"register"}
    MayFail = TRUE
    MayCancel = TRUE
    MaxQueue = 1
    None = None
SPECIFICATION FairSpec
INVARIANTS
    GuardsTracked
PROPERTIES
    RegistrarSpec
    ListedGetLinked
    RequestsEnd
