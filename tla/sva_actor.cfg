CONSTANTS
    s1 = s1
    c1 = c1
    c2 = c2
    Services = {s1}
    Clients = {c1, c2}
    Guards = {g1, g2}
    Wants <- OneAlsoCalls
    MayFail = TRUE
    MayCancel = TRUE
    None = None
SPECIFICATION FairSpec
INVARIANTS
    GuardsTracked
PROPERTIES
    RegistrarSpec
    StrandedOnlyByFailure
    RequestsEnd
