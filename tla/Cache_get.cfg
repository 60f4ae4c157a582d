SPECIFICATION Spec
CONSTANTS
    Threads = {t1, t2}
    Urls = {u1, u2}
    Responses = {r1, r2}
    Entries = {e1}
    Capacity = 1
    NULL = NULL
    Wild = Wild
INVARIANT GetReadsItsUrl
