CONSTANTS
    Topics = {t1}
    Specs = {s1, s2}
    AnySpec = any
    QueueSizes = {0, 1}
    Offers <- OneFitsOnePanics
    Clients = {c1, c2}
    Guards = {g1, g2}
    Requests = {"register", "query", "unregister"}
    MayFail = TRUE
    MayCancel = TRUE
    None = None
    s1 = s1
    s2 = s2
SPECIFICATION FairSpec
INVARIANTS
    DisarmedIffRemoved
    NoOrphan
PROPERTIES
    RegistrarSpec
    StrandedOnlyByFailure
    OrphanRemoved
    RequestsEnd
