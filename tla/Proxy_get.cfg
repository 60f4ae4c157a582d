SPECIFICATION ProxySpec
CONSTANTS
    Threads = {p1, p2, p3}
    Responses = {p1, p2, p3}
    Urls = {u1, u2}
    Entries = {e1, e2}
    Capacity = 2
    NULL = NULL
    Wild = Wild
    Methods = {"GET"}
    Conditions = {NULL, 1}
    Answers = {"ok", "notModified"}
    Chunkings = {FALSE}
    NoStores = {FALSE}
    Validators = {TRUE, FALSE}
    MaxVersion = 1
SYMMETRY Symmetry
INVARIANTS
    ProxyTypeOK
    StableMeansJudged
    NotModifiedMeansCurrent
    HeldIsOfUrl
