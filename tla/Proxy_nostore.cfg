SPECIFICATION ProxySpec
CONSTANTS
    Threads = {p1, p2}
    Responses = {p1, p2}
    Urls = {u1}
    Entries = {e1}
    Capacity = 1
    NULL = NULL
    Wild = Wild
    Methods = {"GET"}
    Conditions = {NULL}
    Answers = {"ok"}
    Chunkings = {FALSE}
    NoStores = {TRUE, FALSE}
    Validators = {TRUE}
    MaxVersion = 0
INVARIANTS
    NoStoreNotCached
