------------------------------- MODULE Cache -------------------------------
(***************************************************************************)
(* The response cache of cache.hpp: a linked list of (url, response)       *)
(* entries, most recently used first, a hash map from url to list entry    *)
(* and the mutex cacheLock.  Any thread may call get, put or checkExpire.  *)
(*                                                                         *)
(* A call is one step up to the next point where another thread can see    *)
(* or disturb it.  get unlocks BEFORE it reads the entry it found, and     *)
(* checkExpire never locks, so both read the map and the entries between   *)
(* any two writes of a put, which are therefore steps of their own.  (What *)
(* get does under the mutex no other thread sees: one step.)               *)
(*                                                                         *)
(* An entry stands for the hash node and the list node of one url.  Freed  *)
(* memory keeps its contents until the allocator hands it to a later       *)
(* insertion; read before that it may also have become part of something   *)
(* else (Wild).  A reader that meets an iterator not yet assigned, or the  *)
(* hash table while a put rebuilds it, may crash, and the process with it. *)
(***************************************************************************)
EXTENDS SequencesExt

CONSTANTS
    Threads,    \* the detached proxy threads
    Urls,       \* cache keys, "host + port + uri"
    Responses,  \* http_Response objects; an object is handed to put once
    Entries,    \* memory of list and hash nodes
    Capacity,   \* MAXCachingCapacity
    NULL,       \* NULL pointer, empty string, nobody
    Wild        \* a pointer read from memory that is no longer an entry

ASSUME CapacityAssumption == Capacity \in Nat \ {0}
ASSUME NullAssumption ==
    /\ NULL \notin Threads \cup Urls \cup Responses \cup Entries
    /\ Wild \notin Responses

VARIABLES
    cacheLock,  \* the thread that holds the mutex, or NULL
    respList,   \* the list: its entries, front (most recently used) first
    entry,      \* contents of every entry, freed ones included
    map,        \* url -> entry, NULL where map.find gives map.cend()
    life,       \* of each response: "new", "given" to put, "deleted" by put
    call        \* per thread: the call it is in, or the result of the last

vars == <<cacheLock, respList, entry, map, life, call>>

\* The places of a put that holds the mutex.
Holding == {"putUpdate", "putPop", "putInsert", "putKey", "putLink"}

Steps == {"idle", "get", "getRead", "put", "expire", "expireRead", "crashed"} \cup Holding

CallRecord == [at  : Steps,
               url : Urls \cup {NULL},       \* argument url
               val : Responses \cup {NULL},  \* argument value of put
               it  : Entries \cup {NULL},    \* local it->second
               ret : Responses \cup Urls \cup {NULL, Wild}]  \* ans, or the result

Frame(step, u, r, e, v) ==
    [at |-> step, url |-> u, val |-> r, it |-> e, ret |-> v]

\* Outside a call; v is what the last call returned.
Idle(v) == Frame("idle", NULL, NULL, NULL, v)

Init ==
    /\ cacheLock = NULL
    /\ respList = << >>
    /\ entry = [e \in Entries |-> [url |-> NULL, resp |-> NULL]]
    /\ map = [u \in Urls |-> NULL]
    /\ life = [r \in Responses |-> "new"]
    /\ call = [t \in Threads |-> Idle(NULL)]

-----------------------------------------------------------------------------
(* Helpers, each the body of one statement of the code.                    *)

Call(t, step, u, r) ==
    /\ call[t].at = "idle"
    /\ call' = [call EXCEPT ![t] = Frame(step, u, r, NULL, NULL)]

Return(t, v) == call' = [call EXCEPT ![t] = Idle(v)]

\* On to the next step of the call with local it->second = e and ans = v.
Move(t, step, e, v) ==
    call' = [call EXCEPT ![t] = Frame(step, @.url, @.val, e, v)]

At(t, step) == call[t].at = step

\* cacheLock.lock() returns only while nobody holds the mutex.
NoLock == TRUE                                      \* mutant: put and get forget to lock
LockFree == cacheLock = NULL

Unlock == cacheLock' = NULL

FullOneLate == Len(respList) > Capacity             \* mutant: > for ==
Full == Len(respList) = Capacity

\* respList.splice(respList.begin(), respList, it): the entry at i goes first.
KeepOrder(s, i) == s                                \* mutant: no splice
MoveToFront(s, i) == Cons(s[i], RemoveAt(s, i))

\* map.erase(u)
EraseNothing(u) == map                              \* mutant: node popped, url stays
Erase(u) == [map EXCEPT ![u] = NULL]

\* it->second->second = r
StoreNothing(e, r) == entry                         \* mutant: the update is lost
Store(e, r) == [entry EXCEPT ![e].resp = r]

\* The list node of e is in the list and its hash node in the map.
Linked(e) == e \in Range(respList) /\ map[entry[e].url] = e

\* map[url] has inserted the key, and has not been assigned begin() yet.
NullIterator(e) == \E w \in Threads : At(w, "putLink") /\ call[w].it = e

\* A put is in map.erase or about to insert with map[url].
MapWritten == \E w \in Threads : call[w].at \in {"putPop", "putKey"}

\* What it->second->second gives: the entry's pointer as long as the memory
\* is an entry, and anything once part of it has been freed.
LoadedEntry(e) == {e}                               \* mutant: it->second
Loaded(e) == IF Linked(e) THEN {entry[e].resp} ELSE {entry[e].resp, Wild}

\* return it->second->second
ReadEntry(t) ==
    /\ ~NullIterator(call[t].it)
    /\ \E r \in Loaded(call[t].it) : Return(t, r)

\* A segmentation fault ends the process, whatever its other threads do.
Crash(t) == call' = [call EXCEPT ![t].at = "crashed"]

Crashed == \E t \in Threads : At(t, "crashed")

-----------------------------------------------------------------------------
(* http_Response * get(string url)                                         *)

GetCall(t, u) ==
    /\ Call(t, "get", u, NULL)
    /\ UNCHANGED <<cacheLock, respList, entry, map, life>>

GetMiss(t) ==
    /\ At(t, "get") /\ LockFree
    /\ map[call[t].url] = NULL
    /\ Return(t, NULL)
    /\ UNCHANGED <<cacheLock, respList, entry, map, life>>

GetHit(t) ==
    /\ At(t, "get") /\ LockFree
    /\ \E i \in DOMAIN respList :
          /\ respList[i] = map[call[t].url]
          /\ respList' = MoveToFront(respList, i)
    /\ Move(t, "getRead", map[call[t].url], NULL)
    /\ UNCHANGED <<cacheLock, entry, map, life>>

\* return it->second->second, after the unlock.
GetRead(t) ==
    /\ At(t, "getRead")
    /\ ReadEntry(t)
    /\ UNCHANGED <<cacheLock, respList, entry, map, life>>

-----------------------------------------------------------------------------
(* string put(string url, http_Response * value)                           *)

PutCall(t, u, r) ==
    /\ life[r] = "new"
    /\ Call(t, "put", u, r)
    /\ life' = [life EXCEPT ![r] = "given"]
    /\ UNCHANGED <<cacheLock, respList, entry, map>>

\* mutant: delete value for delete it->second->second
PutFoundFreesNew(t) ==
    /\ At(t, "put") /\ LockFree
    /\ map[call[t].url] # NULL
    /\ life' = [life EXCEPT ![call[t].val] = "deleted"]
    /\ Move(t, "putUpdate", map[call[t].url], NULL)
    /\ cacheLock' = t
    /\ UNCHANGED <<respList, entry, map>>

\* The key exists: lock, find, delete the old response ...
PutFound(t) ==
    /\ At(t, "put") /\ LockFree
    /\ map[call[t].url] # NULL
    /\ life' = [life EXCEPT ![entry[map[call[t].url]].resp] = "deleted"]
    /\ Move(t, "putUpdate", map[call[t].url], NULL)
    /\ cacheLock' = t
    /\ UNCHANGED <<respList, entry, map>>

\* ... store the new one, move the entry to the front, unlock, return "".
PutUpdate(t) ==
    /\ At(t, "putUpdate")
    /\ entry' = Store(call[t].it, call[t].val)
    /\ \E i \in DOMAIN respList :
          /\ respList[i] = call[t].it
          /\ respList' = MoveToFront(respList, i)
    /\ Unlock
    /\ Return(t, NULL)
    /\ UNCHANGED <<map, life>>

\* The key is new and the list is full: erase the key of the last entry ...
PutEvict(t) ==
    /\ At(t, "put") /\ LockFree
    /\ map[call[t].url] = NULL
    /\ Full
    /\ LET victim == entry[Last(respList)].url IN
          /\ map' = Erase(victim)
          /\ Move(t, "putPop", NULL, victim)
    /\ cacheLock' = t
    /\ UNCHANGED <<respList, entry, life>>

\* ... and pop it.
PutPop(t) ==
    /\ At(t, "putPop")
    /\ respList' = Front(respList)
    /\ Move(t, "putInsert", NULL, call[t].ret)
    /\ UNCHANGED <<cacheLock, entry, map, life>>

\* The key is new and there is room.
PutMiss(t) ==
    /\ At(t, "put") /\ LockFree
    /\ map[call[t].url] = NULL
    /\ ~Full
    /\ Move(t, "putInsert", NULL, NULL)
    /\ cacheLock' = t
    /\ UNCHANGED <<respList, entry, map, life>>

\* emplace_front, in memory that is free ...
PutInsert(t) ==
    /\ At(t, "putInsert")
    /\ \E e \in Entries \ Range(respList) :
          /\ entry' = [entry EXCEPT ![e] = [url |-> call[t].url, resp |-> call[t].val]]
          /\ respList' = Cons(e, respList)
          /\ Move(t, "putKey", e, call[t].ret)
    /\ UNCHANGED <<cacheLock, map, life>>

\* ... map[url], which inserts the key with an iterator to nowhere ...
PutKey(t) ==
    /\ At(t, "putKey")
    /\ map' = [map EXCEPT ![call[t].url] = call[t].it]
    /\ Move(t, "putLink", call[t].it, call[t].ret)
    /\ UNCHANGED <<cacheLock, respList, entry, life>>

\* ... = respList.begin(), unlock, return.
PutLink(t) ==
    /\ At(t, "putLink")
    /\ Unlock
    /\ Return(t, call[t].ret)
    /\ UNCHANGED <<respList, entry, map, life>>

-----------------------------------------------------------------------------
(* int checkExpire(string url, int rmaxAge), up to the response it judges: *)
(* the call returns that response, NULL when it finds none.  The verdict   *)
(* on the response is Freshness!Expired.                                   *)

ExpireCall(t, u) ==
    /\ Call(t, "expire", u, NULL)
    /\ UNCHANGED <<cacheLock, respList, entry, map, life>>

\* mutant: respList.begin() for map.find(url)
ExpireFindFront(t) ==
    /\ At(t, "expire") /\ respList # << >>
    /\ Move(t, "expireRead", respList[1], NULL)
    /\ UNCHANGED <<cacheLock, respList, entry, map, life>>

ExpireFind(t) ==
    /\ At(t, "expire")
    /\ map[call[t].url] # NULL
    /\ Move(t, "expireRead", map[call[t].url], NULL)
    /\ UNCHANGED <<cacheLock, respList, entry, map, life>>

\* Not in the map, or missed because a put is writing the map meanwhile.
ExpireMiss(t) ==
    /\ At(t, "expire")
    /\ map[call[t].url] = NULL \/ MapWritten
    /\ Return(t, NULL)
    /\ UNCHANGED <<cacheLock, respList, entry, map, life>>

ExpireRead(t) ==
    /\ At(t, "expireRead")
    /\ ReadEntry(t)
    /\ UNCHANGED <<cacheLock, respList, entry, map, life>>

\* map.find meets buckets that are being replaced or nodes that are being
\* freed; it->second is an iterator to nowhere (for get, that of another url,
\* in the memory of the entry it found).
ReadCrashes(t) ==
    /\ \/ At(t, "expire") /\ MapWritten
       \/ call[t].at \in {"getRead", "expireRead"} /\ NullIterator(call[t].it)
    /\ Crash(t)
    /\ UNCHANGED <<cacheLock, respList, entry, map, life>>

-----------------------------------------------------------------------------
Calls(t) ==
    \E u \in Urls :
        \/ GetCall(t, u)
        \/ ExpireCall(t, u)
        \/ \E r \in Responses : PutCall(t, u, r)

Step(t) ==
    \/ GetMiss(t) \/ GetHit(t) \/ GetRead(t)
    \/ PutFound(t) \/ PutUpdate(t)
    \/ PutEvict(t) \/ PutPop(t) \/ PutMiss(t) \/ PutInsert(t) \/ PutKey(t) \/ PutLink(t)
    \/ ExpireFind(t) \/ ExpireMiss(t) \/ ExpireRead(t) \/ ReadCrashes(t)

Running == ~Crashed /\ \E t \in Threads : Calls(t) \/ Step(t)

\* The process has died: nothing more happens to this cache.
Dead == Crashed /\ UNCHANGED vars

Next == Running \/ Dead

Spec == Init /\ [][Next]_vars

-----------------------------------------------------------------------------
(* Properties.                                                             *)

TypeOK ==
    /\ cacheLock \in Threads \cup {NULL}
    /\ respList \in Seq(Entries)
    /\ entry \in [Entries -> [url : Urls \cup {NULL}, resp : Responses \cup {NULL}]]
    /\ map \in [Urls -> Entries \cup {NULL}]
    /\ life \in [Responses -> {"new", "given", "deleted"}]
    /\ call \in [Threads -> CallRecord]

\* What checkExpire may find between two writes of a put.  No entry is twice in
\* the list, and map leads each url to an entry of that url that is in the
\* list: no key outlives its node, not even for the length of an eviction.
\* The other way round the list is ahead of the map by one entry at most, the
\* one whose key the put with the mutex has erased and that it will pop, or
\* the one that it has put in front and has not entered yet.
ListMapAgree ==
    /\ IsInjective(respList)
    /\ \A u \in Urls : map[u] # NULL =>
          map[u] \in Range(respList) /\ entry[map[u]].url = u
    /\ \A e \in Range(respList) :
          /\ entry[e].url \in Urls
          /\ \/ map[entry[e].url] = e
             \/ \E t \in Threads : At(t, "putPop") /\ e = Last(respList)
             \/ \E t \in Threads : At(t, "putKey") /\ e = call[t].it

\* The list never outgrows its capacity: put compares the size with == and
\* would never evict again once it were past it.
CapacityRespected ==
    /\ Len(respList) <= Capacity
    /\ \A t \in Threads : At(t, "putInsert") => Len(respList) < Capacity

\* The mutex is held exactly by the thread that is between lock and unlock
\* of a put, so two puts never interleave and every path unlocks.
LockDiscipline ==
    \A t \in Threads : cacheLock = t <=> call[t].at \in Holding

\* A cached response has not been deleted, except for the one that the put
\* holding the mutex has deleted and is about to replace.
EntriesLive ==
    \A e \in Range(respList) :
        \/ life[entry[e].resp] = "given"
        \/ \E t \in Threads : At(t, "putUpdate") /\ call[t].it = e

\* A response has one owner: one entry, or one pending put, which shares it
\* only with the entry it is about to enter into the map.  So no response is
\* deleted twice, and none is deleted while a second entry still points to it.
OneOwner ==
    /\ \A e, f \in Range(respList) : entry[e].resp = entry[f].resp => e = f
    /\ \A t \in Threads : call[t].val # NULL =>
          /\ life[call[t].val] = "given"
          /\ \A e \in Range(respList) : entry[e].resp = call[t].val =>
                call[t].at \in {"putKey", "putLink"} /\ call[t].it = e
          /\ \A s \in Threads : call[s].val = call[t].val => s = t

\* delete it->second->second is never applied to a response that some put has
\* deleted already.
DeletedOnce ==
    [][\A t \in Threads :
          PutFound(t) => life[entry[map[call[t].url]].resp] = "given"]_vars

\* What a thread inside a call relies on.  The iterator that put got from
\* map.find stays valid up to its unlock; a put that evicted or found nothing
\* still has no entry for its url when it inserts.
CallsAgree ==
    \A t \in Threads :
        /\ ~At(t, "idle") => call[t].url \in Urls
        /\ call[t].val # NULL <=> call[t].at \in {"put"} \cup Holding
        /\ call[t].at \in {"getRead", "putUpdate", "putKey", "putLink", "expireRead"} =>
              call[t].it \in Entries
        /\ call[t].at \in {"putUpdate", "putLink"} => map[call[t].url] = call[t].it
        /\ call[t].at \in {"putPop", "putInsert", "putKey"} => map[call[t].url] = NULL
        /\ At(t, "putPop") =>
              Full /\ map[entry[Last(respList)].url] = NULL
                   /\ entry[Last(respList)].url # call[t].url
        /\ call[t].at \in {"putKey", "putLink"} =>
              /\ call[t].it \in Range(respList)
              /\ entry[call[t].it] = [url |-> call[t].url, resp |-> call[t].val]

\* An entry in the list points to a response that was handed to put.
EntriesGiven ==
    \A e \in Range(respList) :
        entry[e].resp \in Responses /\ life[entry[e].resp] # "new"

\* The inductive invariant.  EntriesLive needs OneOwner (the deleted response
\* is in no other entry), OneOwner needs EntriesGiven (a response new to put is
\* in no entry), and all need CallsAgree and LockDiscipline for what a put
\* does between its steps.
IInv ==
    /\ TypeOK
    /\ ListMapAgree
    /\ CapacityRespected
    /\ LockDiscipline
    /\ EntriesLive
    /\ OneOwner
    /\ CallsAgree
    /\ EntriesGiven

\* A get that found its url reads the entry of that url: "get response pointer
\* from the cache using URI ... response pointer if found, else NULL".
GetReadsItsUrl ==
    \A t \in Threads : At(t, "getRead") => map[call[t].url] = call[t].it
=============================================================================
