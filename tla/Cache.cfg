SPECIFICATION HistorySpec
CONSTANTS
    Threads = {t1, t2, t3}
    Urls = {u1, u2, u3}
    Responses = {r1, r2, r3, r4}
    Entries = {e1, e2}
    Capacity = 2
    NULL = NULL
    Wild = Wild
SYMMETRY Symmetry
INVARIANTS
    TypeOK
    
    CapacityRespected
    LockDiscipline
    EntriesLive
    OneOwner
    GetSafeWhileRecent
PROPERTIES
    LRUPromise
