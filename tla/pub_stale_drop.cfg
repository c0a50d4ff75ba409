CONSTANTS
    Topics = {t1}
    Specs = {s1}
    AnySpec = any
    QueueSizes = {1}
    Offers <- OneFits
    Clients = {c1, c2}
    Guards = {g1, g2}
    Requests = {"register"}
    MayFail = FALSE
    MayCancel = FALSE
    None = None
    s1 = s1
    s2 = s2
SPECIFICATION Spec
INVARIANTS
    HandleKeepsPublication
