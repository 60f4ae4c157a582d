--------------------------- MODULE CacheLRUProofs ---------------------------
(***************************************************************************)
(* Cache implements LRUCache, for every capacity and any number of threads, *)
(* urls, responses and entries: the list has the urls in the order of their *)
(* last use, at every step of a put.  And for how long a get may rely on    *)
(* the entry that it found.                                                *)
(***************************************************************************)
EXTENDS CacheLRU, CacheProofs

historyVars == <<vars, history>>

(* How the list stands to the promise: while the mutex is free, i - 1 urls   *)
(* have been used since that of the i-th entry was, and Capacity since one   *)
(* without an entry.                                                         *)
Agrees(S) ==
    \A u \in Urls \ S :
        /\ map[u] = NULL => age[u] = Capacity
        /\ map[u] # NULL => stored[u] = entry[map[u]].resp

InOrder == \A i \in DOMAIN respList : age[entry[respList[i]].url] = i - 1

ListInOrder == Agrees({}) /\ InOrder

(* Inside a put, whose url counts as used already: before the list is        *)
(* changed, the urls in front of its own are older by one, or all are when   *)
(* it has no entry; afterwards the list is in order.                         *)
Placing(t) ==
    LET u == call[t].url IN
    /\ Agrees({u})
    /\ age[u] = 0 /\ stored[u] = call[t].val

UpdateAhead(t) ==
    /\ Placing(t)
    /\ \A i, j \in DOMAIN respList :
          respList[j] = call[t].it =>
            /\ i < j => age[entry[respList[i]].url] = i
            /\ i > j => age[entry[respList[i]].url] = i - 1

InsertAhead(t) ==
    /\ Placing(t)
    /\ \A i \in DOMAIN respList : age[entry[respList[i]].url] = i

Inserted(t) == Placing(t) /\ InOrder

LRUInv ==
    /\ age \in [Urls -> 0 .. Capacity]
    /\ stored \in [Urls -> Responses \cup {NULL}]
    /\ cacheLock = NULL => ListInOrder
    /\ \A t \in Threads :
          /\ At(t, "putUpdate") => UpdateAhead(t)
          /\ call[t].at \in {"putPop", "putInsert"} => InsertAhead(t)
          /\ call[t].at \in {"putKey", "putLink"} => Inserted(t)

-----------------------------------------------------------------------------
(* What IInv says of the list by position.                                   *)
LEMMA ListFacts ==
    ASSUME IInv
    PROVE  /\ respList \in Seq(Entries) /\ Len(respList) \in Nat
           /\ DOMAIN respList = 1 .. Len(respList)
           /\ Len(respList) <= Capacity
           /\ \A i \in 1 .. Len(respList) :
                 LET e == respList[i] IN
                 /\ e \in Entries /\ e # NULL /\ entry[e].url \in Urls
                 /\ cacheLock = NULL => map[entry[e].url] = e
           /\ \A u \in Urls : map[u] # NULL =>
                 /\ map[u] \in Entries /\ entry[map[u]].url = u
                 /\ \E i \in 1 .. Len(respList) : respList[i] = map[u]
           /\ \A i, j \in 1 .. Len(respList) : respList[i] = respList[j] => i = j
<1>1. respList \in Seq(Entries)
  BY DEF IInv, TypeOK
<1>2. /\ DOMAIN respList = 1 .. Len(respList) /\ Len(respList) \in Nat
      /\ \A i \in 1 .. Len(respList) : respList[i] \in Range(respList)
      /\ \A x \in Range(respList) : x \in Entries /\ \E i \in 1 .. Len(respList) : x = respList[i]
  BY <1>1, RangeLemma
<1>3. \A i \in 1 .. Len(respList) :
          LET e == respList[i] IN
          /\ e \in Entries /\ e # NULL /\ entry[e].url \in Urls
          /\ cacheLock = NULL => map[entry[e].url] = e
  <2>1. cacheLock = NULL => \A s \in Threads : ~At(s, "putPop") /\ ~At(s, "putKey")
    BY NullAssumption DEF IInv, LockDiscipline, Holding, At
  <2> QED  BY <1>2, <2>1, NullAssumption DEF IInv, ListMapAgree
<1>4. \A u \in Urls : map[u] # NULL =>
          /\ map[u] \in Entries /\ entry[map[u]].url = u
          /\ \E i \in 1 .. Len(respList) : respList[i] = map[u]
  BY <1>2 DEF IInv, ListMapAgree
<1>5. \A i, j \in 1 .. Len(respList) : respList[i] = respList[j] => i = j
  BY <1>2 DEF IInv, ListMapAgree, IsInjective
<1>6. Len(respList) <= Capacity
  BY DEF IInv, CapacityRespected
<1> QED  BY <1>1, <1>2, <1>3, <1>4, <1>5, <1>6

(* A url is used.                                                            *)
LEMMA TouchLemma ==
    ASSUME age \in [Urls -> 0 .. Capacity], NEW u \in Urls, age' = LRU!Touch(age, u)
    PROVE  /\ age' \in [Urls -> 0 .. Capacity]
           /\ age'[u] = 0
           /\ \A v \in Urls \ {u} :
                 age'[v] = IF age[v] < age[u] THEN age[v] + 1 ELSE age[v]
<1>1. ASSUME NEW v \in Urls
      PROVE  (IF v = u THEN 0 ELSE IF age[v] < age[u] THEN age[v] + 1 ELSE age[v])
                \in 0 .. Capacity
  BY CapacityAssumption
<1> QED  BY <1>1 DEF LRU!Touch

(* What is cached is what was used recently, in every state.                 *)
LEMMA CachedIsRecent ==
    ASSUME IInv, LRUInv
    PROVE  Cached = LRU!Recent(age, stored)
<1> SUFFICES ASSUME NEW u \in Urls
             PROVE  (IF \E t \in Threads : cacheLock = t /\ call[t].url = u
                     THEN call[cacheLock].val
                     ELSE IF map[u] = NULL THEN NULL ELSE entry[map[u]].resp)
                    = IF age[u] < Capacity THEN stored[u] ELSE NULL
  BY DEF Cached, LRU!Recent
<1>1. age[u] \in 0 .. Capacity /\ Capacity \in Nat \ {0}
  BY CapacityAssumption DEF LRUInv
<1>2. ASSUME NEW t \in Threads, cacheLock = t
      PROVE  call[t].at \in Holding /\ Placing(t)
  BY <1>2 DEF IInv, LockDiscipline, Holding, At, LRUInv, UpdateAhead, InsertAhead, Inserted
<1>3. CASE \E t \in Threads : cacheLock = t /\ call[t].url = u
  <2>1. PICK t \in Threads : cacheLock = t /\ call[t].url = u
    BY <1>3
  <2>2. Placing(t)
    BY <1>2, <2>1
  <2> QED  BY <1>1, <2>1, <2>2 DEF Placing
<1>4. CASE /\ \A t \in Threads : cacheLock = t => call[t].url # u
           /\ map[u] = NULL
  <2>1. cacheLock \in Threads \cup {NULL}
    BY DEF IInv, TypeOK
  <2>2. age[u] = Capacity
    BY <1>2, <1>4, <2>1 DEF LRUInv, ListInOrder, Placing, Agrees
  <2> QED  BY <1>1, <1>4, <2>2
<1>5. CASE /\ \A t \in Threads : cacheLock = t => call[t].url # u
           /\ map[u] # NULL
  <2>1. cacheLock \in Threads \cup {NULL}
    BY DEF IInv, TypeOK
  <2>2. stored[u] = entry[map[u]].resp
    BY <1>2, <1>5, <2>1 DEF LRUInv, ListInOrder, Placing, Agrees
  <2>3. PICK i \in 1 .. Len(respList) : respList[i] = map[u]
    BY <1>5, ListFacts
  <2>4. /\ entry[respList[i]].url = u /\ DOMAIN respList = 1 .. Len(respList)
        /\ Len(respList) \in Nat /\ Len(respList) <= Capacity
    BY <1>5, <2>3, ListFacts
  <2>5. age[u] < Capacity
    <3>1. CASE cacheLock = NULL
      <4>1. age[u] = i - 1
        BY <2>4, <3>1 DEF LRUInv, ListInOrder, InOrder
      <4> QED  BY <1>1, <2>4, <4>1
    <3>2. ASSUME NEW t \in Threads, cacheLock = t, At(t, "putUpdate")
          PROVE  age[u] < Capacity
      <4>1. call[t].url \in Urls /\ map[call[t].url] = call[t].it /\ call[t].it \in Entries
        BY <3>2 DEF IInv, CallsAgree, At
      <4>2. PICK j \in 1 .. Len(respList) : respList[j] = call[t].it
        BY <4>1, NullAssumption, ListFacts
      <4>3. entry[call[t].it].url = call[t].url
        BY <4>1, NullAssumption, ListFacts
      <4>4. i # j
        BY <1>5, <2>4, <3>2, <4>2, <4>3
      <4>5. /\ i < j => age[u] = i
            /\ i > j => age[u] = i - 1
        BY <2>4, <3>2, <4>2 DEF LRUInv, UpdateAhead
      <4> QED  BY <1>1, <2>4, <4>2, <4>4, <4>5
    <3>3. ASSUME NEW t \in Threads, cacheLock = t, call[t].at \in {"putPop", "putInsert"}
          PROVE  age[u] < Capacity
      <4>1. age[u] = i
        BY <2>4, <3>3 DEF LRUInv, InsertAhead
      <4>2. CASE At(t, "putInsert")
        BY <1>1, <2>4, <4>1, <4>2 DEF IInv, CapacityRespected
      <4>3. CASE At(t, "putPop")
        <5>1. map[entry[Last(respList)].url] = NULL /\ Last(respList) = respList[Len(respList)]
          BY <4>3 DEF IInv, CallsAgree, Last
        <5>2. i # Len(respList)
          BY <1>5, <2>4, <5>1
        <5> QED  BY <1>1, <2>4, <4>1, <5>2
      <4> QED  BY <3>3, <4>2, <4>3 DEF At
    <3>4. ASSUME NEW t \in Threads, cacheLock = t, call[t].at \in {"putKey", "putLink"}
          PROVE  age[u] < Capacity
      <4>1. age[u] = i - 1
        BY <2>4, <3>4 DEF LRUInv, Inserted, InOrder
      <4> QED  BY <1>1, <2>4, <4>1
    <3> QED  BY <1>2, <2>1, <3>1, <3>2, <3>3, <3>4 DEF Holding, At
  <2> QED  BY <1>5, <2>2, <2>5
<1> QED  BY <1>3, <1>4, <1>5

-----------------------------------------------------------------------------
(* The steps inside a put or get.                                            *)

(* A get: its url is at i and goes to the front, all before it grow older.   *)
LEMMA HitOrder ==
    ASSUME IInv, LRUInv, NEW t \in Threads, GetHit(t),
           age' = LRU!Touch(age, call[t].url), stored' = stored
    PROVE  LRUInv'
<1> DEFINE u == call[t].url
           n == Len(respList)
<1>1. u \in Urls /\ cacheLock = NULL /\ UNCHANGED <<cacheLock, entry, map>>
  BY DEF GetHit, At, LockFree, IInv, CallsAgree
<1>2. PICK k \in 1 .. n : respList[k] = map[u] /\ respList' = MoveToFront(respList, k)
  BY ListFacts DEF GetHit
<1>3. map[u] # NULL /\ entry[respList[k]].url = u
  BY <1>1, <1>2, ListFacts
<1>4. ListInOrder /\ age \in [Urls -> 0 .. Capacity] /\ stored \in [Urls -> Responses \cup {NULL}]
  BY <1>1 DEF LRUInv
<1>5. /\ age' \in [Urls -> 0 .. Capacity] /\ age'[u] = 0
      /\ \A v \in Urls \ {u} :
            age'[v] = IF age[v] < age[u] THEN age[v] + 1 ELSE age[v]
  BY <1>1, <1>4, TouchLemma
<1>6. age[u] = k - 1
  BY <1>2, <1>3, <1>4, ListFacts DEF ListInOrder, InOrder
<1>7. /\ DOMAIN respList' = 1 .. n
      /\ \A j \in 1 .. n : respList'[j] =
            respList[IF j = 1 THEN k ELSE IF j <= k THEN j - 1 ELSE j]
  <2>1. respList \in Seq(Entries) /\ k \in DOMAIN respList /\ DOMAIN respList = 1 .. n /\ n \in Nat
    BY <1>2, ListFacts
  <2> DEFINE m == MoveToFront(respList, k)
  <2>2. /\ m \in Seq(Entries) /\ Len(m) = n
        /\ \A j \in 1 .. n : m[j] = respList[IF j = 1 THEN k ELSE IF j <= k THEN j - 1 ELSE j]
    BY <2>1, MoveToFrontAt
  <2> HIDE DEF m
  <2>3. DOMAIN m = 1 .. n
    BY <2>1, <2>2
  <2> QED  BY <1>2, <2>2, <2>3 DEF m
<1>8. ASSUME NEW j \in 1 .. n
      PROVE  age'[entry[respList'[j]].url] = j - 1
  <2>1. CASE j = 1
    BY <1>3, <1>5, <1>7, <2>1
  <2>2. ASSUME NEW i \in 1 .. n, i # k
        PROVE  age'[entry[respList[i]].url] = IF i < k THEN i ELSE i - 1
    <3>1. /\ entry[respList[i]].url \in Urls /\ map[entry[respList[i]].url] = respList[i]
          /\ respList[i] # respList[k] /\ n \in Nat
      BY <1>1, <1>2, <2>2, ListFacts
    <3>2. age[entry[respList[i]].url] = i - 1
      BY <1>4, ListFacts DEF ListInOrder, InOrder
    <3>3. entry[respList[i]].url # u
      BY <1>2, <3>1
    <3> QED  BY <1>5, <1>6, <3>1, <3>2, <3>3
  <2>3. CASE j # 1 /\ j <= k
    <3>1. j - 1 \in 1 .. n /\ j - 1 # k /\ j - 1 < k
      BY <2>3, ListFacts
    <3> QED  BY <1>7, <2>2, <2>3, <3>1
  <2>4. CASE j # 1 /\ j > k
    BY <1>7, <2>2, <2>4, ListFacts
  <2> QED  BY <2>1, <2>3, <2>4, ListFacts
<1>9. Agrees({})'
  <2>1. ASSUME NEW v \in Urls
        PROVE  /\ map[v] = NULL => age'[v] = Capacity
               /\ map[v] # NULL => stored[v] = entry[map[v]].resp
    <3>1. map[v] = NULL => age[v] = Capacity /\ v # u
      BY <1>3, <1>4 DEF ListInOrder, Agrees
    <3> QED  BY <1>1, <1>4, <1>5, <3>1, CapacityAssumption DEF ListInOrder, Agrees
  <2> QED  BY <1>1, <2>1 DEF Agrees
<1>10. ListInOrder'
  BY <1>1, <1>7, <1>8, <1>9 DEF ListInOrder, InOrder
<1>11. \A s \in Threads : call'[s].at \notin Holding
  <2>1. \A s \in Threads : call[s].at \notin Holding
    BY <1>1, NullAssumption DEF IInv, LockDiscipline
  <2>2. call'[t].at = "getRead" /\ \A s \in Threads \ {t} : call'[s] = call[s]
    BY DEF GetHit, Move, Frame, IInv, TypeOK
  <2> QED  BY <2>1, <2>2 DEF Holding
<1> QED  BY <1>4, <1>5, <1>10, <1>11 DEF LRUInv, At, Holding

(* Where the mutex is free, no put is half done.                             *)
LEMMA NoneHalfDone ==
    ASSUME IInv, cacheLock = NULL, NEW t \in Threads,
           NEW c, call' = [call EXCEPT ![t] = c]
    PROVE  /\ \A s \in Threads : call[s].at \notin Holding
           /\ call'[t] = c
           /\ \A s \in Threads \ {t} : call'[s].at \notin Holding
<1>1. \A s \in Threads : call[s].at \notin Holding
  BY NullAssumption DEF IInv, LockDiscipline
<1> QED  BY <1>1 DEF IInv, TypeOK

(* The first step of a put, which counts as storing its response.            *)
LEMMA PutStores ==
    ASSUME IInv, LRUInv, NEW t \in Threads, PutFound(t) \/ PutEvict(t) \/ PutMiss(t),
           age' = LRU!Touch(age, call[t].url),
           stored' = [stored EXCEPT ![call[t].url] = call[t].val]
    PROVE  LET u == call[t].url IN
           /\ u \in Urls /\ call[t].val \in Responses
           /\ ListInOrder /\ cacheLock = NULL /\ cacheLock' = t /\ entry' = entry
           /\ age \in [Urls -> 0 .. Capacity]
           /\ age' \in [Urls -> 0 .. Capacity] /\ age'[u] = 0
           /\ \A v \in Urls \ {u} :
                 age'[v] = IF age[v] < age[u] THEN age[v] + 1 ELSE age[v]
           /\ stored' \in [Urls -> Responses \cup {NULL}] /\ stored'[u] = call[t].val
           /\ \A v \in Urls \ {u} : stored'[v] = stored[v]
<1> DEFINE u == call[t].url
<1>1. u \in Urls /\ call[t].val \in Responses
  BY DEF PutFound, PutEvict, PutMiss, At, IInv, CallsAgree, TypeOK, CallRecord
<1>2. cacheLock = NULL /\ cacheLock' = t /\ entry' = entry
  BY DEF PutFound, PutEvict, PutMiss, LockFree
<1>3. /\ ListInOrder /\ age \in [Urls -> 0 .. Capacity]
      /\ stored \in [Urls -> Responses \cup {NULL}]
  BY <1>2 DEF LRUInv
<1>4. /\ age' \in [Urls -> 0 .. Capacity] /\ age'[u] = 0
      /\ \A v \in Urls \ {u} :
            age'[v] = IF age[v] < age[u] THEN age[v] + 1 ELSE age[v]
  BY <1>1, <1>3, TouchLemma
<1>5. /\ stored' \in [Urls -> Responses \cup {NULL}] /\ stored'[u] = call[t].val
      /\ \A v \in Urls \ {u} : stored'[v] = stored[v]
  BY <1>1, <1>3
<1> QED  BY <1>1, <1>2, <1>3, <1>4, <1>5

(* The url is there: all that are in front of it grow older.                 *)
LEMMA FoundOrder ==
    ASSUME IInv, LRUInv, NEW t \in Threads, PutFound(t),
           age' = LRU!Touch(age, call[t].url),
           stored' = [stored EXCEPT ![call[t].url] = call[t].val]
    PROVE  LRUInv'
<1> DEFINE u == call[t].url
           n == Len(respList)
<1>1. /\ u \in Urls /\ call[t].val \in Responses
      /\ ListInOrder /\ cacheLock = NULL /\ cacheLock' = t /\ entry' = entry
      /\ age' \in [Urls -> 0 .. Capacity] /\ age'[u] = 0
      /\ \A v \in Urls \ {u} :
            age'[v] = IF age[v] < age[u] THEN age[v] + 1 ELSE age[v]
      /\ stored' \in [Urls -> Responses \cup {NULL}] /\ stored'[u] = call[t].val
      /\ \A v \in Urls \ {u} : stored'[v] = stored[v]
      /\ age \in [Urls -> 0 .. Capacity]
  BY PutStores
<1>2. map[u] # NULL /\ UNCHANGED <<respList, map>>
  BY DEF PutFound
<1>3. /\ call'[t] = Frame("putUpdate", u, call[t].val, map[u], NULL)
      /\ \A s \in Threads \ {t} : call'[s].at \notin Holding
  <2>1. call' = [call EXCEPT ![t] = Frame("putUpdate", u, call[t].val, map[u], NULL)]
    BY DEF PutFound, Move, IInv, TypeOK
  <2> QED  BY <1>1, <2>1, NoneHalfDone
<1>4. ASSUME NEW i \in 1 .. n, NEW k \in 1 .. n, respList[k] = map[u], i # k
      PROVE  age'[entry[respList[i]].url] = IF i < k THEN i ELSE i - 1
  <2>1. /\ entry[respList[i]].url \in Urls /\ map[entry[respList[i]].url] = respList[i]
        /\ respList[i] # respList[k] /\ n \in Nat /\ entry[respList[k]].url = u
    BY <1>1, <1>2, <1>4, ListFacts
  <2>2. age[entry[respList[i]].url] = i - 1 /\ age[entry[respList[k]].url] = k - 1
    BY <1>1, ListFacts DEF ListInOrder, InOrder
  <2>3. entry[respList[i]].url # u
    BY <1>4, <2>1
  <2> QED  BY <1>1, <1>4, <2>1, <2>2, <2>3
<1>5. ASSUME NEW v \in Urls \ {u}
      PROVE  /\ map[v] = NULL => age'[v] = Capacity
             /\ map[v] # NULL => stored'[v] = entry[map[v]].resp
  BY <1>1, <1>5, CapacityAssumption DEF ListInOrder, Agrees
<1>6. DOMAIN respList = 1 .. n /\ n \in Nat
  BY ListFacts
<1>7. UpdateAhead(t)' /\ call'[t].at = "putUpdate"
  <2>1. Placing(t)'
    BY <1>1, <1>2, <1>3, <1>5 DEF Placing, Frame, Agrees
  <2>2. call'[t].it = map[u] /\ call'[t].at = "putUpdate"
    BY <1>3 DEF Frame
  <2> QED  BY <1>1, <1>2, <1>4, <1>6, <2>1, <2>2 DEF UpdateAhead
<1>8. cacheLock' # NULL
  BY <1>1, NullAssumption
<1> QED  BY <1>1, <1>3, <1>7, <1>8 DEF LRUInv, At, Holding

(* The url is new: all that keep an entry grow older, and the one that loses *)
(* its entry is left behind.                                                 *)
LEMMA NewOrder ==
    ASSUME IInv, LRUInv, NEW t \in Threads, PutEvict(t) \/ PutMiss(t),
           age' = LRU!Touch(age, call[t].url),
           stored' = [stored EXCEPT ![call[t].url] = call[t].val]
    PROVE  LRUInv'
<1> DEFINE u == call[t].url
           n == Len(respList)
<1>1. /\ u \in Urls /\ call[t].val \in Responses
      /\ ListInOrder /\ cacheLock = NULL /\ cacheLock' = t /\ entry' = entry
      /\ age' \in [Urls -> 0 .. Capacity] /\ age'[u] = 0
      /\ \A v \in Urls \ {u} :
            age'[v] = IF age[v] < age[u] THEN age[v] + 1 ELSE age[v]
      /\ stored' \in [Urls -> Responses \cup {NULL}] /\ stored'[u] = call[t].val
      /\ \A v \in Urls \ {u} : stored'[v] = stored[v]
      /\ age \in [Urls -> 0 .. Capacity]
  BY PutStores
<1>2. map[u] = NULL /\ age[u] = Capacity
  BY <1>1 DEF PutEvict, PutMiss, ListInOrder, Agrees
<1>3. /\ call'[t].at \in {"putPop", "putInsert"}
      /\ call'[t].url = u /\ call'[t].val = call[t].val
      /\ \A s \in Threads \ {t} : call'[s].at \notin Holding
  <2>1. PICK p \in {"putPop", "putInsert"}, v \in {NULL, entry[Last(respList)].url} :
            call' = [call EXCEPT ![t] = Frame(p, u, call[t].val, NULL, v)]
    BY DEF PutEvict, PutMiss, Move, IInv, TypeOK
  <2>2. /\ call'[t] = Frame(p, u, call[t].val, NULL, v)
        /\ \A s \in Threads \ {t} : call'[s].at \notin Holding
    BY <1>1, <2>1, NoneHalfDone
  <2> QED  BY <2>2 DEF Frame
<1>4. /\ DOMAIN respList = 1 .. n /\ n \in Nat /\ n <= Capacity
      /\ respList \in Seq(Entries) /\ Capacity \in Nat \ {0}
  BY ListFacts, CapacityAssumption
<1>5. ASSUME NEW i \in 1 .. n
      PROVE  age'[entry[respList[i]].url] = i
  <2>1. /\ entry[respList[i]].url \in Urls /\ map[entry[respList[i]].url] = respList[i]
        /\ respList[i] # NULL
    BY <1>1, ListFacts
  <2>2. age[entry[respList[i]].url] = i - 1
    BY <1>1, <1>4 DEF ListInOrder, InOrder
  <2> QED  BY <1>1, <1>2, <1>4, <2>1, <2>2
<1>6. ASSUME NEW v \in Urls \ {u}
      PROVE  /\ map[v] = NULL => age'[v] = Capacity
             /\ map[v] # NULL => stored'[v] = entry[map[v]].resp
  BY <1>1, <1>4, <1>6 DEF ListInOrder, Agrees
<1>7. ASSUME PutMiss(t)
      PROVE  InsertAhead(t)'
  <2>1. UNCHANGED <<respList, map>>
    BY <1>7 DEF PutMiss
  <2> QED  BY <1>1, <1>3, <1>4, <1>5, <1>6, <2>1 DEF InsertAhead, Placing, Agrees
<1>8. ASSUME PutEvict(t)
      PROVE  InsertAhead(t)'
  <2> DEFINE victim == entry[Last(respList)].url
  <2>1. n = Capacity /\ respList' = respList /\ map' = Erase(victim)
    BY <1>8 DEF PutEvict, Full
  <2>2. Last(respList) = respList[n] /\ n \in 1 .. n
    BY <1>4, <2>1 DEF Last
  <2>3. age'[victim] = Capacity /\ victim \in Urls
    BY <1>5, <2>1, <2>2, ListFacts
  <2>4. \A v \in Urls : map'[v] = IF v = victim THEN NULL ELSE map[v]
    BY <2>1, <2>3 DEF Erase, IInv, TypeOK
  <2>5. Placing(t)'
    BY <1>1, <1>3, <1>6, <2>3, <2>4 DEF Placing, Agrees
  <2>6. \A i \in DOMAIN respList' : age'[entry'[respList'[i]].url] = i
    BY <1>1, <1>4, <1>5, <2>1
  <2> QED  BY <2>5, <2>6 DEF InsertAhead
<1>9. InsertAhead(t)'
  BY <1>7, <1>8
<1>10. cacheLock' # NULL
  BY <1>1, NullAssumption
<1> QED  BY <1>1, <1>3, <1>9, <1>10 DEF LRUInv, At, Holding

(* The put's own change of the list brings it into the order of use.         *)
LEMMA UpdateOrder ==
    ASSUME IInv, LRUInv, NEW t \in Threads, PutUpdate(t), UNCHANGED <<age, stored>>
    PROVE  LRUInv'
<1> DEFINE u == call[t].url
           n == Len(respList)
           e == call[t].it
<1>1. /\ u \in Urls /\ e \in Entries /\ map[u] = e /\ e # NULL
      /\ call[t].val # NULL /\ cacheLock = t /\ cacheLock' = NULL /\ map' = map
  BY NullAssumption DEF PutUpdate, At, Unlock, IInv, CallsAgree, LockDiscipline, Holding
<1>2. UpdateAhead(t)
  BY DEF PutUpdate, LRUInv
<1>3. \A f \in Entries : /\ entry'[f].url = entry[f].url
                         /\ entry'[f].resp = IF f = e THEN call[t].val ELSE entry[f].resp
  BY <1>1 DEF PutUpdate, Store, IInv, TypeOK
<1>4. PICK k \in 1 .. n : respList[k] = e /\ respList' = MoveToFront(respList, k)
  BY ListFacts DEF PutUpdate
<1>5. /\ respList \in Seq(Entries) /\ k \in DOMAIN respList
      /\ DOMAIN respList = 1 .. n /\ n \in Nat
  BY <1>4, ListFacts
<1>6. /\ DOMAIN respList' = 1 .. n
      /\ \A j \in 1 .. n : respList'[j] =
            respList[IF j = 1 THEN k ELSE IF j <= k THEN j - 1 ELSE j]
  <2> DEFINE m == MoveToFront(respList, k)
  <2>1. /\ m \in Seq(Entries) /\ Len(m) = n
        /\ \A j \in 1 .. n : m[j] = respList[IF j = 1 THEN k ELSE IF j <= k THEN j - 1 ELSE j]
    BY <1>5, MoveToFrontAt
  <2> HIDE DEF m
  <2>2. DOMAIN m = 1 .. n
    BY <1>5, <2>1
  <2> QED  BY <1>4, <2>1, <2>2 DEF m
<1>7. ASSUME NEW i \in 1 .. n
      PROVE  age[entry'[respList[i]].url] =
                 IF i = k THEN 0 ELSE IF i < k THEN i ELSE i - 1
  <2>1. entry'[respList[i]].url = entry[respList[i]].url
    BY <1>3, ListFacts
  <2>2. CASE i = k
    BY <1>1, <1>2, <1>4, <2>1, <2>2, ListFacts DEF UpdateAhead, Placing
  <2>3. CASE i # k
    BY <1>2, <1>4, <1>5, <2>1, <2>3 DEF UpdateAhead
  <2> QED  BY <2>2, <2>3
<1>8. ASSUME NEW j \in 1 .. n
      PROVE  age[entry'[respList'[j]].url] = j - 1
  <2>1. CASE j = 1
    BY <1>6, <1>7, <2>1
  <2>2. CASE j # 1 /\ j <= k
    <3>1. j - 1 \in 1 .. n /\ j - 1 # k /\ j - 1 < k
      BY <1>5, <2>2
    <3> QED  BY <1>6, <1>7, <2>2, <3>1
  <2>3. CASE j # 1 /\ j > k
    <3>1. j # k /\ ~(j < k)
      BY <1>5, <2>3
    <3> QED  BY <1>6, <1>7, <2>3, <3>1
  <2> QED  BY <1>5, <2>1, <2>2, <2>3
<1>9. Agrees({})'
  <2>1. ASSUME NEW v \in Urls
        PROVE  /\ map[v] = NULL => age[v] = Capacity
               /\ map[v] # NULL => stored[v] = entry'[map[v]].resp
    <3>1. CASE v = u
      BY <1>1, <1>2, <1>3, <3>1 DEF UpdateAhead, Placing
    <3>2. CASE v # u
      <4>1. map[v] # NULL => map[v] \in Entries /\ map[v] # e
        BY <1>1, <3>2, ListFacts
      <4> QED  BY <1>2, <1>3, <3>2, <4>1 DEF UpdateAhead, Placing, Agrees
    <3> QED  BY <3>1, <3>2
  <2> QED  BY <1>1, <2>1 DEF Agrees
<1>10. ListInOrder'
  BY <1>6, <1>8, <1>9 DEF ListInOrder, InOrder
<1>11. \A s \in Threads : call'[s].at \notin Holding
  BY <1>1 DEF PutUpdate, Return, Idle, Frame, IInv, TypeOK, LockDiscipline, Holding
<1> QED  BY <1>10, <1>11 DEF LRUInv, At, Holding

(* Inside a put only its own thread can be.                                  *)
LEMMA OthersOutside ==
    ASSUME IInv, NEW t \in Threads, call[t].at \in Holding,
           NEW c, call' = [call EXCEPT ![t] = c]
    PROVE  /\ cacheLock = t /\ cacheLock # NULL
           /\ call'[t] = c
           /\ \A s \in Threads \ {t} : call'[s].at \notin Holding
<1>1. cacheLock = t /\ \A s \in Threads \ {t} : call[s].at \notin Holding
  BY DEF IInv, LockDiscipline
<1> QED  BY <1>1, NullAssumption DEF IInv, TypeOK

LEMMA PopOrder ==
    ASSUME IInv, LRUInv, NEW t \in Threads, PutPop(t), UNCHANGED <<age, stored>>
    PROVE  LRUInv'
<1> DEFINE n == Len(respList)
           c == Frame("putInsert", call[t].url, call[t].val, NULL, call[t].ret)
<1>1. call' = [call EXCEPT ![t] = c] /\ call[t].at \in Holding /\ InsertAhead(t)
  BY DEF PutPop, Move, At, Holding, IInv, TypeOK, LRUInv
<1>2. /\ cacheLock' # NULL /\ call'[t] = c /\ UNCHANGED <<map, entry>>
      /\ \A s \in Threads \ {t} : call'[s].at \notin Holding
  <2> HIDE DEF c
  <2> QED  BY <1>1, OthersOutside DEF PutPop
<1>3. c.at = "putInsert" /\ c.url = call[t].url /\ c.val = call[t].val
  BY DEF Frame
<1>4. \A i \in DOMAIN respList' : i \in DOMAIN respList /\ respList'[i] = respList[i]
  <2>1. respList' = Front(respList) /\ n = Capacity
    BY DEF PutPop, IInv, CallsAgree, Full
  <2> QED  BY <2>1, ListFacts, CapacityAssumption DEF Front
<1>5. InsertAhead(t)'
  BY <1>1, <1>2, <1>3, <1>4 DEF InsertAhead, Placing, Agrees
<1> QED  BY <1>2, <1>3, <1>5 DEF LRUInv, At, Holding

LEMMA InsertOrder ==
    ASSUME IInv, LRUInv, NEW t \in Threads, PutInsert(t), UNCHANGED <<age, stored>>
    PROVE  LRUInv'
<1> DEFINE u == call[t].url
           n == Len(respList)
<1>1. PICK e \in Entries \ Range(respList) :
          /\ entry' = [entry EXCEPT ![e] = [url |-> u, resp |-> call[t].val]]
          /\ respList' = Cons(e, respList)
          /\ Move(t, "putKey", e, call[t].ret)
  BY DEF PutInsert
<1> DEFINE c == Frame("putKey", u, call[t].val, e, call[t].ret)
<1>2. call' = [call EXCEPT ![t] = c] /\ call[t].at \in Holding /\ InsertAhead(t)
  BY <1>1 DEF PutInsert, Move, At, Holding, IInv, TypeOK, LRUInv
<1>3. /\ cacheLock' # NULL /\ call'[t] = c /\ UNCHANGED map
      /\ \A s \in Threads \ {t} : call'[s].at \notin Holding
  <2> HIDE DEF c
  <2> QED  BY <1>2, OthersOutside DEF PutInsert
<1>4. c.at = "putKey" /\ c.url = u /\ c.val = call[t].val
  BY DEF Frame
<1>5. /\ entry'[e].url = u
      /\ \A f \in Entries \ {e} : entry'[f] = entry[f]
  BY <1>1 DEF IInv, TypeOK
<1>6. respList \in Seq(Entries) /\ DOMAIN respList = 1 .. n /\ n \in Nat
  BY ListFacts
<1>7. /\ DOMAIN respList' = 1 .. n + 1 /\ respList'[1] = e
      /\ \A j \in 2 .. n + 1 : j - 1 \in 1 .. n /\ respList'[j] = respList[j - 1]
  <2> DEFINE d == Cons(e, respList)
  <2>1. d \in Seq(Entries) /\ Len(d) = n + 1 /\ d[1] = e
        /\ \A j \in 1 .. n : d[j + 1] = respList[j]
    BY <1>1, <1>6 DEF Cons
  <2> HIDE DEF d
  <2>2. DOMAIN d = 1 .. n + 1
    BY <1>6, <2>1
  <2>3. \A j \in 2 .. n + 1 : j - 1 \in 1 .. n /\ (j - 1) + 1 = j
    BY <1>6
  <2>4. \A j \in 2 .. n + 1 : d[j] = respList[j - 1]
    BY <2>1, <2>3
  <2> QED  BY <1>1, <2>1, <2>2, <2>3, <2>4 DEF d
<1>8. ASSUME NEW j \in 1 .. n + 1
      PROVE  age[entry'[respList'[j]].url] = j - 1
  <2>1. CASE j = 1
    BY <1>2, <1>5, <1>7, <2>1 DEF InsertAhead, Placing
  <2>2. CASE j \in 2 .. n + 1
    <3>1. j - 1 \in 1 .. n /\ respList'[j] = respList[j - 1]
      BY <1>7, <2>2
    <3>2. respList[j - 1] \in Entries \ {e}
      BY <1>1, <1>6, <3>1, RangeLemma
    <3> QED  BY <1>2, <1>5, <1>6, <3>1, <3>2 DEF InsertAhead
  <2> QED  BY <1>6, <2>1, <2>2
<1>9. ASSUME NEW v \in Urls \ {u}
      PROVE  /\ map[v] = NULL => age[v] = Capacity
             /\ map[v] # NULL => stored[v] = entry'[map[v]].resp
  <2>1. map[v] # NULL => map[v] \in Entries \ {e}
    BY <1>1, NullAssumption DEF IInv, ListMapAgree, TypeOK
  <2> QED  BY <1>2, <1>5, <2>1 DEF InsertAhead, Placing, Agrees
<1>10. Inserted(t)'
  BY <1>2, <1>3, <1>4, <1>7, <1>8, <1>9
  DEF Inserted, InOrder, InsertAhead, Placing, Agrees
<1> QED  BY <1>3, <1>4, <1>10 DEF LRUInv, At, Holding

LEMMA KeyOrder ==
    ASSUME IInv, LRUInv, NEW t \in Threads, PutKey(t), UNCHANGED <<age, stored>>
    PROVE  LRUInv'
<1> DEFINE u == call[t].url
           c == Frame("putLink", u, call[t].val, call[t].it, call[t].ret)
<1>1. call' = [call EXCEPT ![t] = c] /\ call[t].at \in Holding /\ Inserted(t)
  BY DEF PutKey, Move, At, Holding, IInv, TypeOK, LRUInv
<1>2. /\ cacheLock' # NULL /\ call'[t] = c /\ UNCHANGED <<respList, entry>>
      /\ \A s \in Threads \ {t} : call'[s].at \notin Holding
  <2> HIDE DEF c
  <2> QED  BY <1>1, OthersOutside DEF PutKey
<1>3. c.at = "putLink" /\ c.url = u /\ c.val = call[t].val
  BY DEF Frame
<1>4. \A v \in Urls \ {u} : map'[v] = map[v]
  BY DEF PutKey, IInv, TypeOK
<1>5. Inserted(t)'
  BY <1>1, <1>2, <1>3, <1>4 DEF Inserted, InOrder, Placing, Agrees
<1> QED  BY <1>2, <1>3, <1>5 DEF LRUInv, At, Holding

LEMMA LinkOrder ==
    ASSUME IInv, LRUInv, NEW t \in Threads, PutLink(t), UNCHANGED <<age, stored>>
    PROVE  LRUInv'
<1> DEFINE u == call[t].url
           c == Idle(call[t].ret)
<1>1. call' = [call EXCEPT ![t] = c] /\ call[t].at \in Holding /\ Inserted(t)
  BY DEF PutLink, Return, At, Holding, IInv, TypeOK, LRUInv
<1>2. /\ call'[t] = c /\ UNCHANGED <<respList, entry, map>>
      /\ \A s \in Threads \ {t} : call'[s].at \notin Holding
  <2> HIDE DEF c
  <2> QED  BY <1>1, OthersOutside DEF PutLink
<1>3. c.at \notin Holding
  BY DEF Idle, Frame, Holding
<1>4. map[u] # NULL /\ stored[u] = entry[map[u]].resp
  <2>1. map[u] = call[t].it /\ call[t].it \in Entries
        /\ entry[call[t].it] = [url |-> u, resp |-> call[t].val]
    BY DEF PutLink, At, IInv, CallsAgree
  <2> QED  BY <1>1, <2>1, NullAssumption DEF Inserted, Placing
<1>5. ListInOrder'
  BY <1>1, <1>2, <1>4 DEF ListInOrder, Inserted, InOrder, Placing, Agrees
<1> QED  BY <1>2, <1>3, <1>5 DEF LRUInv, At, Holding

(* Everything else leaves the list, the map and half-done puts alone.        *)
LEMMA QuietOrder ==
    ASSUME IInv, LRUInv, UNCHANGED <<cacheLock, respList, entry, map, age, stored>>,
           NEW t \in Threads, NEW c, call' = [call EXCEPT ![t] = c],
           c.at \notin Holding
    PROVE  LRUInv'
<1>1. \A s \in Threads : call'[s].at \in Holding => call'[s] = call[s]
  BY DEF At, IInv, TypeOK
<1>2. ListInOrder => ListInOrder'
  BY DEF ListInOrder, InOrder, Agrees
<1>3. ASSUME NEW s \in Threads, call'[s] = call[s]
      PROVE  /\ UpdateAhead(s) => UpdateAhead(s)'
             /\ InsertAhead(s) => InsertAhead(s)'
             /\ Inserted(s) => Inserted(s)'
  BY <1>3 DEF UpdateAhead, InsertAhead, Inserted, InOrder, Placing, Agrees
<1> QED  BY <1>1, <1>2, <1>3 DEF LRUInv, At, Holding

(* A step of a thread that uses no url and is not inside a put.              *)
LEMMA QuietStep ==
    ASSUME IInv, NEW t \in Threads,
           \/ GetMiss(t) \/ GetRead(t)
           \/ ExpireFind(t) \/ ExpireMiss(t) \/ ExpireRead(t) \/ ReadCrashes(t)
    PROVE  /\ UNCHANGED <<cacheLock, respList, entry, map>>
           /\ \E c : call' = [call EXCEPT ![t] = c] /\ c.at \notin Holding \cup {"getRead"}
<1>1. UNCHANGED <<cacheLock, respList, entry, map>>
  BY DEF GetMiss, GetRead, ExpireFind, ExpireMiss, ExpireRead, ReadCrashes
<1>2. \/ \E v : Return(t, v)
      \/ \E e, v : Move(t, "expireRead", e, v)
      \/ Crash(t)
  BY DEF GetMiss, GetRead, ExpireFind, ExpireMiss, ExpireRead, ReadCrashes, ReadEntry
<1>3. ASSUME NEW v, Return(t, v)
      PROVE  \E c : call' = [call EXCEPT ![t] = c] /\ c.at \notin Holding \cup {"getRead"}
  <2>1. Idle(v).at = "idle"
    BY DEF Idle, Frame
  <2> QED  BY <1>3, <2>1 DEF Return, Holding
<1>4. ASSUME NEW e, NEW v, Move(t, "expireRead", e, v)
      PROVE  \E c : call' = [call EXCEPT ![t] = c] /\ c.at \notin Holding \cup {"getRead"}
  <2> DEFINE d == Frame("expireRead", call[t].url, call[t].val, e, v)
  <2>1. d.at = "expireRead"
    BY DEF Frame
  <2>2. call' = [call EXCEPT ![t] = d]
    BY <1>4 DEF Move, IInv, TypeOK
  <2> HIDE DEF d
  <2> QED  BY <2>1, <2>2 DEF Holding
<1>5. ASSUME Crash(t)
      PROVE  \E c : call' = [call EXCEPT ![t] = c] /\ c.at \notin Holding \cup {"getRead"}
  <2> DEFINE d == [call[t] EXCEPT !.at = "crashed"]
  <2>1. d.at = "crashed"
    BY DEF IInv, TypeOK, CallRecord
  <2>2. call' = [call EXCEPT ![t] = d]
    BY <1>5 DEF Crash, IInv, TypeOK
  <2> HIDE DEF d
  <2> QED  BY <2>1, <2>2 DEF Holding
<1> QED  BY <1>1, <1>2, <1>3, <1>4, <1>5

(* The steps of HistoryNext.                                                 *)
Counts(t) ==
    /\ Uses(t)
    /\ age' = LRU!Touch(age, call[t].url)
    /\ stored' = IF call[t].val = NULL THEN stored
                 ELSE [stored EXCEPT ![call[t].url] = call[t].val]
    /\ Observe({call[t].url})

LEMMA HistoryCases ==
    ASSUME [HistoryNext]_historyVars
    PROVE  \/ \E t \in Threads : Counts(t)
           \/ /\ UNCHANGED <<age, stored>> /\ Observe({})
              /\ \/ \E t \in Threads : Calls(t) \/ (Step(t) /\ ~Uses(t))
                 \/ UNCHANGED vars
           \/ UNCHANGED historyVars
BY DEF HistoryNext, Next, Running, Dead, Counts

LEMMA LRUStep ==
    ASSUME IInv, LRUInv, [HistoryNext]_historyVars
    PROVE  LRUInv'
<1>1. ASSUME NEW t \in Threads, Counts(t)
      PROVE  LRUInv'
  <2>1. GetHit(t) => call[t].val = NULL
    BY DEF GetHit, At, IInv, CallsAgree, Holding
  <2>2. PutFound(t) \/ PutEvict(t) \/ PutMiss(t) => call[t].val # NULL
    BY DEF PutFound, PutEvict, PutMiss, At, IInv, CallsAgree, Holding
  <2>3. CASE GetHit(t)
    BY <1>1, <2>1, <2>3, HitOrder DEF Counts
  <2>4. CASE PutFound(t)
    BY <1>1, <2>2, <2>4, FoundOrder DEF Counts
  <2>5. CASE PutEvict(t) \/ PutMiss(t)
    BY <1>1, <2>2, <2>5, NewOrder DEF Counts
  <2> QED  BY <1>1, <2>3, <2>4, <2>5 DEF Counts, Uses
<1>2. ASSUME NEW t \in Threads, Calls(t), UNCHANGED <<age, stored>>
      PROVE  LRUInv'
  <2>1. PICK step, u, r : Call(t, step, u, r) /\ step \notin Holding
    BY <1>2 DEF Calls, GetCall, ExpireCall, PutCall, Holding
  <2>2. UNCHANGED <<cacheLock, respList, entry, map>>
    BY <1>2 DEF Calls, GetCall, ExpireCall, PutCall
  <2>3. Frame(step, u, r, NULL, NULL).at = step
    BY DEF Frame
  <2> QED  BY <1>2, <2>1, <2>2, <2>3, QuietOrder DEF Call
<1>3. ASSUME NEW t \in Threads, Step(t), ~Uses(t), UNCHANGED <<age, stored>>
      PROVE  LRUInv'
  <2>1. CASE PutUpdate(t)
    BY <1>3, <2>1, UpdateOrder
  <2>2. CASE PutPop(t)
    BY <1>3, <2>2, PopOrder
  <2>3. CASE PutInsert(t)
    BY <1>3, <2>3, InsertOrder
  <2>4. CASE PutKey(t)
    BY <1>3, <2>4, KeyOrder
  <2>5. CASE PutLink(t)
    BY <1>3, <2>5, LinkOrder
  <2>6. CASE \/ GetMiss(t) \/ GetRead(t)
             \/ ExpireFind(t) \/ ExpireMiss(t) \/ ExpireRead(t) \/ ReadCrashes(t)
    <3>1. UNCHANGED <<cacheLock, respList, entry, map>>
      BY <2>6, QuietStep
    <3>2. \E c : call' = [call EXCEPT ![t] = c] /\ c.at \notin Holding
      BY <2>6, QuietStep
    <3> QED  BY <1>3, <3>1, <3>2, QuietOrder
  <2> QED  BY <1>3, <2>1, <2>2, <2>3, <2>4, <2>5, <2>6 DEF Step, Uses
<1>4. CASE UNCHANGED <<vars, age, stored>>
  BY <1>4 DEF vars, LRUInv, ListInOrder, InOrder, UpdateAhead, InsertAhead, Inserted,
              Placing, Agrees, At
<1> QED  BY <1>1, <1>2, <1>3, <1>4, HistoryCases DEF historyVars, history

LEMMA LRUInit == HistoryInit => LRUInv
<1> SUFFICES ASSUME HistoryInit PROVE LRUInv
  OBVIOUS
<1>1. ListInOrder
  BY DEF HistoryInit, Init, ListInOrder, InOrder, Agrees
<1>2. \A t \in Threads : call[t].at = "idle"
  BY DEF HistoryInit, Init, Idle, Frame
<1> QED  BY <1>1, <1>2, CapacityAssumption DEF HistoryInit, LRUInv, At

(* Adding the history variables takes nothing away from the cache.           *)
LEMMA HistoryIsCache == HistorySpec => Spec
<1>1. HistoryInit => Init
  BY DEF HistoryInit
<1>2. [HistoryNext]_historyVars => [Next]_vars
  BY DEF HistoryNext, historyVars, Uses, Next, Running, Step
<1> QED  BY <1>1, <1>2, PTL DEF HistorySpec, Spec, historyVars

(* Every step is one of the promise, or changes nothing that it speaks of.   *)
LEMMA StepIsLRU ==
    ASSUME IInv, LRUInv, IInv', LRUInv', [HistoryNext]_historyVars
    PROVE  [LRU!Next]_LRU!vars
<1>1. Cached = LRU!Recent(age, stored) /\ Cached' = LRU!Recent(age, stored)'
  <2>1. Cached = LRU!Recent(age, stored)
    BY CachedIsRecent
  <2>2. (IInv /\ LRUInv => Cached = LRU!Recent(age, stored))'
    BY CachedIsRecent, PTL
  <2> QED  BY <2>1, <2>2
<1>2. CASE UNCHANGED <<age, stored>>
  BY <1>1, <1>2 DEF LRU!vars, LRU!Recent
<1>3. ASSUME NEW t \in Threads, GetHit(t), age' = LRU!Touch(age, call[t].url),
             UNCHANGED stored
      PROVE  LRU!Hit(call[t].url) /\ call[t].url \in Urls
  <2>1. cacheLock = NULL /\ cacheLock' = NULL /\ UNCHANGED <<map, entry>>
    BY <1>3 DEF GetHit, LockFree
  <2>2. Cached = [u \in Urls |-> IF map[u] = NULL THEN NULL ELSE entry[map[u]].resp]
    BY <2>1, NullAssumption DEF Cached
  <2>3. Cached' = Cached
    BY <2>1, <2>2, NullAssumption DEF Cached
  <2>4. call[t].url \in Urls /\ map[call[t].url] \in Range(respList)
    BY <1>3 DEF GetHit, At, IInv, CallsAgree, TypeOK, Range
  <2>5. entry[map[call[t].url]].resp # NULL /\ map[call[t].url] # NULL
    BY <2>4, NullAssumption, RangeLemma DEF IInv, EntriesGiven, TypeOK
  <2> QED  BY <1>3, <2>2, <2>3, <2>4, <2>5 DEF LRU!Hit
<1>4. ASSUME NEW t \in Threads, PutFound(t) \/ PutEvict(t) \/ PutMiss(t),
             age' = LRU!Touch(age, call[t].url),
             stored' = [stored EXCEPT ![call[t].url] = call[t].val]
      PROVE  LRU!Next
  <2>1. call[t].url \in Urls /\ call[t].val \in Responses
    BY <1>4, PutStores
  <2>2. LRU!Put(call[t].url, call[t].val)
    BY <1>1, <1>4 DEF LRU!Put, LRU!Recent
  <2> QED  BY <2>1, <2>2 DEF LRU!Next
<1>5. ASSUME NEW t \in Threads, Counts(t)
      PROVE  LRU!Next
  <2>1. GetHit(t) => call[t].val = NULL
    BY DEF GetHit, At, IInv, CallsAgree, Holding
  <2>2. PutFound(t) \/ PutEvict(t) \/ PutMiss(t) => call[t].val # NULL
    BY DEF PutFound, PutEvict, PutMiss, At, IInv, CallsAgree, Holding
  <2>3. CASE GetHit(t)
    BY <1>3, <1>5, <2>1, <2>3 DEF Counts, LRU!Next
  <2>4. CASE PutFound(t) \/ PutEvict(t) \/ PutMiss(t)
    BY <1>4, <1>5, <2>2, <2>4 DEF Counts
  <2> QED  BY <1>5, <2>3, <2>4 DEF Counts, Uses
<1> QED  BY <1>2, <1>5, HistoryCases DEF historyVars, history

-----------------------------------------------------------------------------
(* The list, the map, the mutex and the eviction together are an atomic LRU  *)
(* cache, whatever threads get and put.                                      *)
THEOREM CacheIsLRU == HistorySpec => LRUPromise
<1>1. HistoryInit => LRU!Init
  <2> SUFFICES ASSUME HistoryInit PROVE LRU!Init
    OBVIOUS
  <2>1. Cached = [u \in Urls |-> NULL]
    BY NullAssumption DEF HistoryInit, Init, Cached
  <2> QED  BY <2>1 DEF HistoryInit, LRU!Init
<1>2. HistorySpec => []IInv
  BY HistoryIsCache, Invariance, PTL
<1>3. IInv /\ LRUInv /\ [HistoryNext]_historyVars => LRUInv'
  BY LRUStep
<1>4. IInv /\ LRUInv /\ IInv' /\ LRUInv' /\ [HistoryNext]_historyVars
        => [LRU!Next]_LRU!vars
  BY StepIsLRU
<1> QED
  BY <1>1, <1>2, <1>3, <1>4, LRUInit, PTL
  DEF HistorySpec, LRUPromise, LRU!Spec, historyVars

-----------------------------------------------------------------------------
(* Why a get may rely on its iterator for so long.  Every url that has been  *)
(* used more recently than its own was used since it unlocked; when its own  *)
(* url is evicted these are all the others in the list, and the put's.       *)
Holds(t) ==
    LET u == call[t].url IN
    /\ map[u] = call[t].it
    /\ \A v \in Urls \ {u} : age[v] < age[u] => v \in since[t]

SinceInv ==
    /\ since \in [Threads -> SUBSET Urls]
    /\ \A t \in Threads :
          /\ IsFiniteSet(since[t])
          /\ At(t, "getRead") =>
                Holds(t) \/ Cardinality(since[t] \ {call[t].url}) >= Capacity

(* The urls of a full list but its last, and one that has no entry.          *)
LEMMA FullListUrls ==
    ASSUME IInv, cacheLock = NULL, Full, NEW u \in Urls, map[u] = NULL,
           NEW S, IsFiniteSet(S), u \in S,
           \A i \in 1 .. Capacity - 1 : entry[respList[i]].url \in S
    PROVE  Cardinality(S) >= Capacity
<1> DEFINE f == [i \in 1 .. Capacity |-> IF i = Capacity THEN u ELSE entry[respList[i]].url]
<1>1. Capacity \in Nat \ {0} /\ Len(respList) = Capacity
  BY CapacityAssumption DEF Full
<1>2. f \in [1 .. Capacity -> S]
  <2>1. ASSUME NEW i \in 1 .. Capacity
        PROVE  (IF i = Capacity THEN u ELSE entry[respList[i]].url) \in S
    BY <1>1
  <2> QED  BY <2>1
<1>3. ASSUME NEW i \in 1 .. Capacity, NEW j \in 1 .. Capacity, f[i] = f[j]
      PROVE  i = j
  <2>1. \A k \in 1 .. Capacity :
            /\ map[entry[respList[k]].url] = respList[k]
            /\ respList[k] # NULL
    BY <1>1, ListFacts
  <2>2. \A k \in 1 .. Capacity : k # Capacity =>
            map[f[k]] = respList[k] /\ respList[k] # NULL
    BY <2>1
  <2>3. map[f[Capacity]] = NULL
    BY <1>1
  <2>4. i = Capacity <=> j = Capacity
    BY <1>3, <2>2, <2>3
  <2>5. respList[i] = respList[j] => i = j
    BY <1>1, ListFacts
  <2> QED  BY <1>3, <2>2, <2>4, <2>5
<1> HIDE DEF f
<1>4. f \in Injection(1 .. Capacity, S)
  BY <1>2, <1>3 DEF Injection, IsInjective
<1>5. Cardinality(1 .. Capacity) <= Cardinality(S)
  BY <1>4, FS_Injection
<1>6. Cardinality(1 .. Capacity) = Capacity
  <2>1. 1 \in Int /\ Capacity \in Int
    BY <1>1
  <2>2. Cardinality(1 .. Capacity) = IF 1 > Capacity THEN 0 ELSE Capacity - 1 + 1
    BY <2>1, FS_Interval
  <2> QED  BY <1>1, <2>2
<1>7. Cardinality(S) \in Nat
  BY FS_CardinalityType
<1> QED  BY <1>1, <1>5, <1>6, <1>7

(* What a thread has seen go by only grows.                                  *)
LEMMA SinceGrows ==
    ASSUME IInv, SinceInv, NEW used \in SUBSET Urls, IsFiniteSet(used), Observe(used)
    PROVE  /\ since' \in [Threads -> SUBSET Urls]
           /\ \A s \in Threads :
                 /\ IsFiniteSet(since'[s])
                 /\ At(s, "getRead") /\ call'[s].at = "getRead" =>
                       /\ since'[s] = since[s] \cup used
                       /\ \A u : Cardinality(since'[s] \ {u}) >= Cardinality(since[s] \ {u})
                       /\ \A u : Cardinality(since[s] \ {u}) \in Nat /\ Cardinality(since'[s] \ {u}) \in Nat
<1>1. since' \in [Threads -> SUBSET Urls]
  BY DEF Observe, SinceInv
<1>2. ASSUME NEW s \in Threads
      PROVE  /\ since'[s] = IF At(s, "getRead") /\ call'[s].at = "getRead"
                            THEN since[s] \cup used ELSE {}
             /\ IsFiniteSet(since'[s])
  <2>1. since'[s] = IF At(s, "getRead") /\ call'[s].at = "getRead"
                    THEN since[s] \cup used ELSE {}
    BY DEF Observe
  <2>2. IsFiniteSet(since[s] \cup used) /\ IsFiniteSet({})
    BY FS_Union, FS_EmptySet DEF SinceInv
  <2> QED  BY <2>1, <2>2
<1>3. ASSUME NEW s \in Threads, At(s, "getRead"), call'[s].at = "getRead", NEW u
      PROVE  /\ Cardinality(since'[s] \ {u}) >= Cardinality(since[s] \ {u})
             /\ Cardinality(since[s] \ {u}) \in Nat /\ Cardinality(since'[s] \ {u}) \in Nat
  <2>1. since[s] \ {u} \in SUBSET (since'[s] \ {u})
    BY <1>2, <1>3
  <2>2. IsFiniteSet(since'[s] \ {u}) /\ IsFiniteSet(since[s] \ {u})
    BY <1>2, FS_RemoveElement DEF SinceInv
  <2>3. Cardinality(since[s] \ {u}) <= Cardinality(since'[s] \ {u})
    BY <2>1, <2>2, FS_Subset
  <2>4. Cardinality(since[s] \ {u}) \in Nat /\ Cardinality(since'[s] \ {u}) \in Nat
    BY <2>2, FS_CardinalityType
  <2> QED  BY <2>3, <2>4
<1> QED  BY <1>1, <1>2, <1>3

(* The get that unlocks has its own url in front.                            *)
LEMMA HitSince ==
    ASSUME IInv, LRUInv, NEW t \in Threads, GetHit(t), Counts(t)
    PROVE  call'[t].at = "getRead" /\ Holds(t)' /\ \A s \in Threads \ {t} : call'[s] = call[s]
<1> DEFINE u == call[t].url
<1>1. /\ call'[t] = Frame("getRead", u, call[t].val, map[u], NULL)
      /\ \A s \in Threads \ {t} : call'[s] = call[s]
  BY DEF GetHit, Move, IInv, TypeOK
<1>2. u \in Urls /\ map' = map
  BY DEF GetHit, At, IInv, CallsAgree
<1>3. age' \in [Urls -> 0 .. Capacity] /\ age'[u] = 0
  BY <1>2, TouchLemma DEF Counts, LRUInv
<1>4. \A v \in Urls : ~(age'[v] < age'[u])
  BY <1>3
<1> QED  BY <1>1, <1>2, <1>4 DEF Holds, Frame

(* A use by another thread.                                                  *)
LEMMA UseSince ==
    ASSUME IInv, LRUInv, SinceInv, NEW t \in Threads, Counts(t),
           NEW s \in Threads \ {t}, At(s, "getRead"), call'[s] = call[s], Holds(s)
    PROVE  Holds(s)' \/ Cardinality(since'[s] \ {call'[s].url}) >= Capacity
<1> DEFINE u == call[s].url
           w == call[t].url
<1>1. u \in Urls /\ w \in Urls /\ call[s].it \in Entries
  BY DEF Counts, Uses, GetHit, PutFound, PutEvict, PutMiss, At, IInv, CallsAgree
<1>2. /\ age' \in [Urls -> 0 .. Capacity] /\ age \in [Urls -> 0 .. Capacity]
      /\ age'[w] = 0
      /\ \A v \in Urls \ {w} :
            age'[v] = IF age[v] < age[w] THEN age[v] + 1 ELSE age[v]
  BY <1>1, TouchLemma DEF Counts, LRUInv
<1>3. since'[s] = since[s] \cup {w} /\ IsFiniteSet(since'[s])
  <2>1. IsFiniteSet({w}) /\ {w} \in SUBSET Urls
    BY <1>1, FS_Singleton
  <2> QED  BY <2>1, SinceGrows DEF Counts, At
<1>4. ASSUME NEW v \in Urls \ {u}, age'[v] < age'[u]
      PROVE  v \in since'[s]
  <2>1. CASE v = w
    BY <1>3, <2>1
  <2>2. CASE v # w
    <3>1. age[v] \in Nat /\ age[u] \in Nat /\ age[w] \in Nat
      BY <1>1, <1>2, CapacityAssumption
    <3>2. u # w
      BY <1>2, <1>4, CapacityAssumption
    <3>3. age[v] < age[u]
      BY <1>1, <1>2, <1>4, <2>2, <3>1, <3>2
    <3> QED  BY <1>3, <1>4, <3>3 DEF Holds
  <2> QED  BY <2>1, <2>2
<1>5. CASE map'[u] = map[u]
  BY <1>4, <1>5 DEF Holds
<1>6. CASE map'[u] # map[u]
  <2>1. /\ PutEvict(t) /\ cacheLock = NULL /\ Full /\ map[w] = NULL
        /\ map' = Erase(entry[Last(respList)].url)
    BY <1>6 DEF Counts, Uses, GetHit, PutFound, PutEvict, PutMiss, LockFree
  <2>2. entry[Last(respList)].url = u
    BY <1>1, <1>6, <2>1 DEF Erase, IInv, TypeOK
  <2>3. /\ Len(respList) = Capacity /\ Capacity \in Nat \ {0}
        /\ Last(respList) = respList[Capacity] /\ DOMAIN respList = 1 .. Capacity
    BY <2>1, ListFacts, CapacityAssumption DEF Full, Last
  <2>4. ListInOrder
    BY <2>1 DEF LRUInv
  <2>5. u # w
    BY <1>1, <2>1, NullAssumption DEF Holds
  <2>6. ASSUME NEW i \in 1 .. Capacity - 1
        PROVE  entry[respList[i]].url \in since'[s] \ {u}
    <3>1. i \in 1 .. Capacity /\ Capacity \in 1 .. Capacity /\ i # Capacity
      BY <2>3
    <3>2. respList[i] # respList[Capacity]
      BY <2>3, <3>1, ListFacts
    <3>3. entry[respList[i]].url \in Urls \ {u}
      BY <2>1, <2>2, <2>3, <3>1, <3>2, ListFacts
    <3>4. age[entry[respList[i]].url] = i - 1 /\ age[u] = Capacity - 1
      BY <2>2, <2>3, <2>4, <3>1 DEF ListInOrder, InOrder
    <3>5. age[entry[respList[i]].url] < age[u]
      BY <2>3, <3>1, <3>4
    <3> QED  BY <1>3, <3>3, <3>5 DEF Holds
  <2>7. IsFiniteSet(since'[s] \ {u}) /\ w \in since'[s] \ {u}
    BY <1>3, <2>5, FS_RemoveElement
  <2> DEFINE S == since'[s] \ {u}
  <2> HIDE DEF S
  <2>8. Cardinality(S) >= Capacity
    BY <1>1, <2>1, <2>6, <2>7, FullListUrls DEF S
  <2> QED  BY <2>8 DEF S
<1> QED  BY <1>5, <1>6

(* Everything else leaves the url's own entry alone.                         *)
LEMMA MapKept ==
    ASSUME IInv, NEW t \in Threads, Calls(t) \/ (Step(t) /\ ~Uses(t)),
           NEW s \in Threads, call'[s].at = "getRead"
    PROVE  /\ call'[s] = call[s]
           /\ \A u \in Urls : map[u] # NULL => map'[u] = map[u]
<1>1. CASE Calls(t)
  <2>1. PICK step, u, r : Call(t, step, u, r) /\ step # "getRead"
    BY <1>1 DEF Calls, GetCall, ExpireCall, PutCall
  <2>2. call'[t].at = step
    BY <2>1 DEF Call, Frame, IInv, TypeOK
  <2>3. map' = map
    BY <1>1 DEF Calls, GetCall, ExpireCall, PutCall
  <2>4. s # t
    BY <2>1, <2>2
  <2> QED  BY <2>1, <2>3, <2>4 DEF Call, IInv, TypeOK
<1>2. CASE \/ GetMiss(t) \/ GetRead(t)
           \/ ExpireFind(t) \/ ExpireMiss(t) \/ ExpireRead(t) \/ ReadCrashes(t)
  <2>1. map' = map /\ \E c : call' = [call EXCEPT ![t] = c] /\ c.at # "getRead"
    BY <1>2, QuietStep
  <2> QED  BY <2>1 DEF IInv, TypeOK
<1>3. CASE PutUpdate(t) \/ PutPop(t) \/ PutInsert(t) \/ PutKey(t) \/ PutLink(t)
  <2>1. \E c : call' = [call EXCEPT ![t] = c] /\ c.at # "getRead"
    <3>1. CASE PutUpdate(t) \/ PutLink(t)
      <4>1. \A v : Idle(v).at # "getRead"
        BY DEF Idle, Frame
      <4> QED  BY <3>1, <4>1 DEF PutUpdate, PutLink, Return
    <3>2. CASE PutPop(t) \/ PutInsert(t) \/ PutKey(t)
      <4>1. PICK step, e, v :
               step \in {"putInsert", "putKey", "putLink"} /\ Move(t, step, e, v)
        BY <3>2 DEF PutPop, PutInsert, PutKey
      <4> DEFINE c == Frame(step, call[t].url, call[t].val, e, v)
      <4>2. call' = [call EXCEPT ![t] = c]
        BY <4>1 DEF Move, IInv, TypeOK
      <4>3. c.at # "getRead"
        BY <4>1 DEF Frame
      <4> HIDE DEF c
      <4> QED  BY <4>2, <4>3
    <3> QED  BY <1>3, <3>1, <3>2
  <2>2. call'[s] = call[s]
    BY <2>1 DEF IInv, TypeOK
  <2>3. \A u \in Urls : map[u] # NULL => map'[u] = map[u]
    BY <1>3 DEF PutUpdate, PutPop, PutInsert, PutKey, PutLink, At, IInv, CallsAgree, TypeOK
  <2> QED  BY <2>2, <2>3
<1> QED  BY <1>1, <1>2, <1>3 DEF Step, Uses

LEMMA SinceStep ==
    ASSUME IInv, LRUInv, SinceInv, [HistoryNext]_historyVars
    PROVE  SinceInv'
<1>1. ASSUME NEW t \in Threads, Counts(t)
      PROVE  SinceInv'
  <2> DEFINE w == call[t].url
  <2>1. w \in Urls
    BY <1>1 DEF Counts, Uses, GetHit, PutFound, PutEvict, PutMiss, At, IInv, CallsAgree
  <2>2. IsFiniteSet({w}) /\ {w} \in SUBSET Urls
    BY <2>1, FS_Singleton
  <2>3. /\ since' \in [Threads -> SUBSET Urls]
        /\ \A s \in Threads :
              /\ IsFiniteSet(since'[s])
              /\ At(s, "getRead") /\ call'[s].at = "getRead" =>
                    /\ \A u : Cardinality(since'[s] \ {u}) >= Cardinality(since[s] \ {u})
                    /\ \A u : Cardinality(since[s] \ {u}) \in Nat /\ Cardinality(since'[s] \ {u}) \in Nat
    BY <1>1, <2>2, SinceGrows DEF Counts
  <2>4. ASSUME NEW s \in Threads \ {t}
        PROVE  call'[s] = call[s]
    BY <1>1 DEF Counts, Uses, GetHit, PutFound, PutEvict, PutMiss, Move, IInv, TypeOK
  <2>5. call'[t].at = "getRead" => Holds(t)'
    <3>1. CASE GetHit(t)
      BY <1>1, <3>1, HitSince
    <3>2. CASE PutFound(t) \/ PutEvict(t) \/ PutMiss(t)
      <4>1. PICK step, e, v :
               step \in {"putUpdate", "putPop", "putInsert"} /\ Move(t, step, e, v)
        BY <3>2 DEF PutFound, PutEvict, PutMiss
      <4>2. call'[t].at = step
        BY <4>1 DEF Move, Frame, IInv, TypeOK
      <4> QED  BY <4>1, <4>2
    <3> QED  BY <1>1, <3>1, <3>2 DEF Counts, Uses
  <2>6. ASSUME NEW s \in Threads \ {t}, call'[s].at = "getRead"
        PROVE  Holds(s)' \/ Cardinality(since'[s] \ {call'[s].url}) >= Capacity
    <3>1. At(s, "getRead") /\ call'[s] = call[s]
      BY <2>4, <2>6 DEF At
    <3>2. CASE Holds(s)
      BY <1>1, <3>1, <3>2, UseSince
    <3>3. CASE Cardinality(since[s] \ {call[s].url}) >= Capacity
      <4> DEFINE a == Cardinality(since[s] \ {call[s].url})
                 b == Cardinality(since'[s] \ {call[s].url})
      <4>1. a >= Capacity /\ b >= a /\ a \in Nat /\ b \in Nat
        BY <2>3, <2>6, <3>1, <3>3
      <4> HIDE DEF a, b
      <4>2. b >= Capacity
        BY <4>1, CapacityAssumption
      <4> QED  BY <3>1, <4>2 DEF b
    <3> QED  BY <3>1, <3>2, <3>3 DEF SinceInv
  <2> QED  BY <2>3, <2>5, <2>6 DEF SinceInv, At
<1>2. ASSUME UNCHANGED <<age, stored>>, Observe({}),
             NEW t \in Threads, Calls(t) \/ (Step(t) /\ ~Uses(t))
      PROVE  SinceInv'
  <2>1. IsFiniteSet({}) /\ {} \in SUBSET Urls
    BY FS_EmptySet
  <2>2. /\ since' \in [Threads -> SUBSET Urls]
        /\ \A s \in Threads :
              /\ IsFiniteSet(since'[s])
              /\ At(s, "getRead") /\ call'[s].at = "getRead" => since'[s] = since[s] \cup {}
    BY <1>2, <2>1, SinceGrows
  <2>3. ASSUME NEW s \in Threads, call'[s].at = "getRead"
        PROVE  Holds(s)' \/ Cardinality(since'[s] \ {call'[s].url}) >= Capacity
    <3>1. call'[s] = call[s] /\ \A u \in Urls : map[u] # NULL => map'[u] = map[u]
      BY <1>2, <2>3, MapKept
    <3>2. At(s, "getRead") /\ since'[s] = since[s]
      BY <2>2, <2>3, <3>1 DEF At
    <3>3. call[s].url \in Urls /\ call[s].it # NULL
      BY <3>2, NullAssumption DEF At, IInv, CallsAgree
    <3>4. Holds(s) => Holds(s)'
      BY <1>2, <3>1, <3>2, <3>3 DEF Holds
    <3> QED  BY <3>1, <3>2, <3>4 DEF SinceInv
  <2> QED  BY <2>2, <2>3 DEF SinceInv, At
<1>3. ASSUME UNCHANGED <<age, stored>>, UNCHANGED vars, Observe({})
      PROVE  SinceInv'
  <2>1. IsFiniteSet({}) /\ {} \in SUBSET Urls
    BY FS_EmptySet
  <2>2. /\ since' \in [Threads -> SUBSET Urls]
        /\ \A s \in Threads :
              /\ IsFiniteSet(since'[s])
              /\ At(s, "getRead") /\ call'[s].at = "getRead" => since'[s] = since[s] \cup {}
    BY <1>3, <2>1, SinceGrows
  <2> QED  BY <1>3, <2>2 DEF SinceInv, Holds, At, vars
<1>4. CASE UNCHANGED historyVars
  BY <1>4 DEF historyVars, history, vars, SinceInv, Holds, At
<1> QED  BY <1>1, <1>2, <1>3, <1>4, HistoryCases

(* A get's iterator still leads to its url's entry when it is read, however  *)
(* many threads put and get meanwhile, until Capacity other urls were used.  *)
THEOREM GetIsSafe == HistorySpec => []GetSafeWhileRecent
<1>1. HistorySpec => []IInv
  BY HistoryIsCache, Invariance, PTL
<1>2. HistoryInit => SinceInv
  <2> SUFFICES ASSUME HistoryInit PROVE SinceInv
    OBVIOUS
  <2>1. \A t \in Threads : call[t].at = "idle"
    BY DEF HistoryInit, Init, Idle, Frame
  <2> QED  BY <2>1, FS_EmptySet DEF HistoryInit, SinceInv, At
<1>3. IInv /\ LRUInv /\ SinceInv /\ [HistoryNext]_historyVars => LRUInv' /\ SinceInv'
  BY LRUStep, SinceStep
<1>4. IInv /\ SinceInv => GetSafeWhileRecent
  <2> SUFFICES ASSUME SinceInv, NEW t \in Threads, At(t, "getRead"),
                      Cardinality(since[t] \ {call[t].url}) < Capacity
               PROVE  map[call[t].url] = call[t].it
    BY DEF GetSafeWhileRecent
  <2>1. Cardinality(since[t] \ {call[t].url}) \in Nat
    BY FS_RemoveElement, FS_CardinalityType DEF SinceInv
  <2> QED  BY <2>1, CapacityAssumption DEF SinceInv, Holds
<1> QED
  BY <1>1, <1>2, <1>3, <1>4, LRUInit, PTL DEF HistorySpec, historyVars
=============================================================================
