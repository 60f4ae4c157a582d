SPECIFICATION FairProxySpec
CONSTANTS
    Threads = {p1, p2}
    Responses = {p1, p2}
    Urls = {u1, u2}
    Entries = {e1}
    Capacity = 1
    NULL = NULL
    Wild = Wild
    Methods = {"GET", "POST", "CONNECT", "PUT"}
    Conditions = {NULL}
    Answers = {"ok", "notModified", "other", "broken", "reset", "unsent"}
    Chunkings = {TRUE, FALSE}
    NoStores = {FALSE}
    Validators = {TRUE}
    MaxVersion = 1
INVARIANTS
    OneAnswer
    
PROPERTIES
    
    EveryRequestEnds
