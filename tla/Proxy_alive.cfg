SPECIFICATION ProxySpec
CONSTANTS
    Threads = {p1, p2, p3}
    Responses = {p1, p2, p3}
    Urls = {u1}
    Entries = {e1}
    Capacity = 1
    NULL = NULL
    Wild = Wild
    Methods = {"GET"}
    Conditions = {NULL}
    Answers = {"ok", "notModified"}
    Chunkings = {FALSE}
    NoStores = {FALSE}
    Validators = {TRUE}
    MaxVersion = 0
SYMMETRY Symmetry
INVARIANTS
    HeldIsAlive
