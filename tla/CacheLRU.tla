------------------------------ MODULE CacheLRU ------------------------------
(***************************************************************************)
(* Cache implements LRUCache.  A get or put takes effect in the step that  *)
(* finds the mutex free.  Two history variables record how recently each   *)
(* url was used and the response put last; what is cached is read off the  *)
(* map and the entries, except that the put which holds the mutex counts   *)
(* as done.  A third one records what happens between a get's unlock and   *)
(* its read.                                                               *)
(***************************************************************************)
EXTENDS Cache

VARIABLES
    age, stored,  \* of LRUCache
    since         \* for each thread in get that has unlocked and not read
                  \* yet: the urls used meanwhile

history == <<age, stored, since>>

\* What the cache would hold once the put that has the mutex unlocks.
Cached ==
    [u \in Urls |->
        IF \E t \in Threads : cacheLock = t /\ call[t].url = u
        THEN call[cacheLock].val
        ELSE IF map[u] = NULL THEN NULL ELSE entry[map[u]].resp]

LRU == INSTANCE LRUCache WITH cached <- Cached

\* t's get or put passes the lock and uses its url.
Uses(t) == GetHit(t) \/ PutFound(t) \/ PutEvict(t) \/ PutMiss(t)

HistoryInit ==
    /\ Init
    /\ age = [u \in Urls |-> Capacity]
    /\ stored = [u \in Urls |-> NULL]
    /\ since = [t \in Threads |-> {}]

\* The threads still between unlock and read have seen used go by.
Observe(used) ==
    since' = [s \in Threads |->
                IF At(s, "getRead") /\ call'[s].at = "getRead" THEN since[s] \cup used ELSE {}]

HistoryNext ==
    \/ \E t \in Threads :
          /\ ~Crashed /\ Uses(t)
          /\ age' = LRU!Touch(age, call[t].url)
          /\ stored' = IF call[t].val = NULL THEN stored
                       ELSE [stored EXCEPT ![call[t].url] = call[t].val]
          /\ Observe({call[t].url})
    \/ /\ Next /\ ~ \E t \in Threads : Uses(t)
       /\ Observe({})
       /\ UNCHANGED <<age, stored>>

HistorySpec == HistoryInit /\ [][HistoryNext]_<<vars, history>>

-----------------------------------------------------------------------------
\* The list, the map, the mutex and the eviction together behave as an atomic
\* LRU cache: "leetcode 146", README.md, with the gets and puts of any number
\* of threads.
LRUPromise == LRU!Spec

\* How long the iterator that get reads after the unlock may be relied on: until
\* Capacity other urls have been used, whatever the other threads do with this
\* one.  (After that it may be another url's: GetReadsItsUrl.)
GetSafeWhileRecent ==
    \A t \in Threads :
        At(t, "getRead") /\ Cardinality(since[t] \ {call[t].url}) < Capacity
        => map[call[t].url] = call[t].it
=============================================================================
