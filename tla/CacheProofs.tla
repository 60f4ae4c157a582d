---------------------------- MODULE CacheProofs ----------------------------
(***************************************************************************)
(* What holds of the cache for any number of threads, urls, responses and  *)
(* entries and any capacity.  IInv is inductive: lemmas about the list     *)
(* operations, then one lemma per action that the mutex guards, one for    *)
(* all the actions that leave the shared state alone, then the theorems.   *)
(***************************************************************************)
EXTENDS Cache, FiniteSetTheorems, TLAPS

(* The elements of a list, by position.                                     *)
LEMMA RangeLemma ==
    ASSUME NEW S, NEW s \in Seq(S)
    PROVE  /\ DOMAIN s = 1 .. Len(s) /\ Len(s) \in Nat
           /\ \A j \in 1 .. Len(s) : s[j] \in Range(s)
           /\ \A x \in Range(s) : x \in S /\ \E j \in 1 .. Len(s) : x = s[j]
BY DEF Range

(* splice moves one entry to the front; those before it move back by one.   *)
LEMMA MoveToFrontAt ==
    ASSUME NEW S, NEW s \in Seq(S), NEW i \in DOMAIN s
    PROVE  /\ MoveToFront(s, i) \in Seq(S)
           /\ Len(MoveToFront(s, i)) = Len(s)
           /\ \A j \in 1 .. Len(s) : MoveToFront(s, i)[j] =
                 s[IF j = 1 THEN i ELSE IF j <= i THEN j - 1 ELSE j]
<1> DEFINE m == MoveToFront(s, i)
           at(j) == IF j = 1 THEN i ELSE IF j <= i THEN j - 1 ELSE j
<1> DEFINE a == SubSeq(s, 1, i - 1)
           b == SubSeq(s, i + 1, Len(s))
<1>1. /\ a \in Seq(S) /\ Len(a) = i - 1
      /\ \A j \in 1 .. i - 1 : a[j] = s[j]
  OBVIOUS
<1>2. /\ b \in Seq(S) /\ Len(b) = Len(s) - i
      /\ \A j \in 1 .. Len(s) - i : b[j] = s[i + j]
  OBVIOUS
<1> DEFINE c == a \o b
<1> HIDE DEF a, b
<1>3. /\ c \in Seq(S) /\ Len(c) = Len(s) - 1
      /\ \A j \in 1 .. i - 1 : c[j] = s[j]
      /\ \A j \in i .. Len(s) - 1 : c[j] = s[j + 1]
  BY <1>1, <1>2
<1>4. m = <<s[i]>> \o c
  BY DEF MoveToFront, Cons, RemoveAt, a, b
<1> HIDE DEF c, m
<1>5. /\ m \in Seq(S) /\ Len(m) = Len(s) /\ m[1] = s[i]
      /\ \A j \in 2 .. Len(s) : m[j] = c[j - 1]
  BY <1>3, <1>4
<1>6. \A j \in 2 .. Len(s) : m[j] = s[at(j)]
  <2> TAKE j \in 2 .. Len(s)
  <2>1. CASE j <= i
    <3>1. j - 1 \in 1 .. i - 1 /\ at(j) = j - 1
      BY <2>1
    <3> QED  BY <1>3, <1>5, <3>1
  <2>2. CASE j > i
    <3>1. j - 1 \in i .. Len(s) - 1 /\ at(j) = j /\ (j - 1) + 1 = j
      BY <2>2
    <3> QED  BY <1>3, <1>5, <3>1
  <2> QED  BY <2>1, <2>2
<1>7. m[1] = s[at(1)]
  BY <1>5
<1> QED  BY <1>5, <1>6, <1>7 DEF m

(* splice moves one entry to the front and keeps the list's length, its     *)
(* entries and their being distinct.                                        *)
LEMMA MoveToFrontLemma ==
    ASSUME NEW S, NEW s \in Seq(S), NEW i \in DOMAIN s
    PROVE  /\ MoveToFront(s, i) \in Seq(S)
           /\ Len(MoveToFront(s, i)) = Len(s)
           /\ Range(MoveToFront(s, i)) = Range(s)
           /\ IsInjective(s) => IsInjective(MoveToFront(s, i))
<1> DEFINE m == MoveToFront(s, i)
           at(j) == IF j = 1 THEN i ELSE IF j <= i THEN j - 1 ELSE j
<1>1. /\ m \in Seq(S)
      /\ Len(m) = Len(s)
      /\ \A j \in 1 .. Len(s) : m[j] = s[at(j)]
  BY MoveToFrontAt
<1>2. \A j \in 1 .. Len(s) : at(j) \in 1 .. Len(s)
  OBVIOUS
<1>3. \A k \in 1 .. Len(s) : \E j \in 1 .. Len(s) : at(j) = k
  <2> TAKE k \in 1 .. Len(s)
  <2>1. CASE k = i  BY <2>1
  <2>2. CASE k < i  BY <2>2, at(k + 1) = k
  <2>3. CASE k > i  BY <2>3, at(k) = k
  <2> QED  BY <2>1, <2>2, <2>3
<1>4. \A j, k \in 1 .. Len(s) : at(j) = at(k) => j = k
  OBVIOUS
<1> HIDE DEF m, at
<1>5. Range(m) = Range(s)
  <2>1. ASSUME NEW x \in Range(m) PROVE x \in Range(s)
    BY <1>1, <1>2, RangeLemma
  <2>2. ASSUME NEW x \in Range(s) PROVE x \in Range(m)
    <3>1. PICK k \in 1 .. Len(s) : x = s[k]
      BY RangeLemma
    <3>2. PICK j \in 1 .. Len(s) : at(j) = k
      BY <1>3
    <3> QED  BY <1>1, <3>1, <3>2, RangeLemma
  <2> QED  BY <2>1, <2>2
<1>6. IsInjective(s) => IsInjective(m)
  <2>1. DOMAIN m = 1 .. Len(s) /\ DOMAIN s = 1 .. Len(s)
    BY <1>1
  <2> SUFFICES ASSUME IsInjective(s), NEW j \in 1 .. Len(s), NEW k \in 1 .. Len(s),
                      m[j] = m[k]
               PROVE  j = k
    BY <2>1 DEF IsInjective
  <2>2. s[at(j)] = s[at(k)] /\ at(j) \in DOMAIN s /\ at(k) \in DOMAIN s
    BY <1>1, <1>2, <2>1
  <2>3. at(j) = at(k)
    BY <2>2 DEF IsInjective
  <2> QED  BY <1>4, <2>3
<1> QED  BY <1>1, <1>5, <1>6 DEF m

(* emplace_front.                                                           *)
LEMMA ConsLemma ==
    ASSUME NEW S, NEW s \in Seq(S), NEW e \in S
    PROVE  /\ Cons(e, s) \in Seq(S)
           /\ Len(Cons(e, s)) = Len(s) + 1
           /\ Range(Cons(e, s)) = Range(s) \cup {e}
           /\ IsInjective(s) /\ e \notin Range(s) => IsInjective(Cons(e, s))
<1> DEFINE c == Cons(e, s)
<1>1. /\ c \in Seq(S)
      /\ Len(c) = Len(s) + 1
      /\ c[1] = e
      /\ \A j \in 1 .. Len(s) : c[j + 1] = s[j]
  BY DEF Cons
<1> HIDE DEF c
<1>2. \A j \in 2 .. Len(s) + 1 : j - 1 \in 1 .. Len(s) /\ c[j] = s[j - 1]
  <2> TAKE j \in 2 .. Len(s) + 1
  <2>1. j - 1 \in 1 .. Len(s) /\ (j - 1) + 1 = j
    OBVIOUS
  <2> QED  BY <1>1, <2>1
<1>3. Range(c) = Range(s) \cup {e}
  <2>1. ASSUME NEW x \in Range(c) PROVE x \in Range(s) \cup {e}
    <3>1. PICK j \in 1 .. Len(c) : x = c[j]
      BY <1>1, RangeLemma
    <3>2. CASE j = 1
      BY <1>1, <3>1, <3>2
    <3>3. CASE j # 1
      <4>1. j \in 2 .. Len(s) + 1
        BY <1>1, <3>3
      <4> QED  BY <1>2, <3>1, <4>1, RangeLemma
    <3> QED  BY <3>2, <3>3
  <2>2. ASSUME NEW x \in Range(s) PROVE x \in Range(c)
    <3>1. PICK j \in 1 .. Len(s) : x = s[j]
      BY RangeLemma
    <3>2. j + 1 \in 1 .. Len(c) /\ c[j + 1] = x
      BY <1>1, <3>1
    <3> QED  BY <1>1, <3>2, RangeLemma
  <2>3. e \in Range(c)
    <3>1. 1 \in 1 .. Len(c)
      BY <1>1
    <3> QED  BY <1>1, <3>1, RangeLemma
  <2> QED  BY <2>1, <2>2, <2>3
<1>4. ASSUME IsInjective(s), e \notin Range(s) PROVE IsInjective(c)
  <2>1. SUFFICES ASSUME NEW j \in 1 .. Len(c), NEW k \in 1 .. Len(c), c[j] = c[k]
                 PROVE  j = k
    BY <1>1 DEF IsInjective
  <2>2. /\ j = 1 \/ j \in 2 .. Len(s) + 1
        /\ k = 1 \/ k \in 2 .. Len(s) + 1
    BY <1>1
  <2>3. \A n \in 2 .. Len(s) + 1 : c[n] # e
    BY <1>2, <1>4, RangeLemma
  <2>4. CASE j = 1 \/ k = 1
    BY <1>1, <2>1, <2>2, <2>3, <2>4
  <2>5. CASE j # 1 /\ k # 1
    <3>1. /\ j - 1 \in DOMAIN s /\ k - 1 \in DOMAIN s
          /\ s[j - 1] = s[k - 1]
      BY <1>2, <2>1, <2>2, <2>5
    <3>2. j - 1 = k - 1
      BY <1>4, <3>1 DEF IsInjective
    <3> QED  BY <3>2
  <2> QED  BY <2>4, <2>5
<1> QED  BY <1>1, <1>3, <1>4 DEF c

(* pop_back.                                                                *)
LEMMA FrontLemma ==
    ASSUME NEW S, NEW s \in Seq(S), Len(s) > 0, IsInjective(s)
    PROVE  /\ Front(s) \in Seq(S)
           /\ Len(Front(s)) = Len(s) - 1
           /\ Last(s) \in Range(s)
           /\ Range(Front(s)) = Range(s) \ {Last(s)}
           /\ IsInjective(Front(s))
<1> DEFINE f == Front(s)
<1>1. Len(s) \in Nat \ {0} /\ DOMAIN s = 1 .. Len(s)
  OBVIOUS
<1>inner. \A j \in 1 .. Len(s) - 1 : j \in 1 .. Len(s) /\ j # Len(s)
  <2>1. \A n \in Nat : \A j \in 1 .. n - 1 : j \in 1 .. n /\ j # n
    OBVIOUS
  <2> QED  BY <1>1, <2>1
<1>2. /\ f \in Seq(S)
      /\ Len(f) = Len(s) - 1
      /\ \A j \in 1 .. Len(s) - 1 : f[j] = s[j]
  BY <1>1 DEF Front
<1>3. Last(s) = s[Len(s)] /\ Len(s) \in 1 .. Len(s)
  BY <1>1 DEF Last
<1> HIDE DEF f
<1>4. Last(s) \in Range(s)
  BY <1>3, RangeLemma
<1>5. Range(f) = Range(s) \ {Last(s)}
  <2>1. ASSUME NEW x \in Range(f) PROVE x \in Range(s) \ {Last(s)}
    <3>1. PICK j \in 1 .. Len(s) - 1 : x = s[j]
      BY <1>2, RangeLemma
    <3>2. j \in 1 .. Len(s) /\ j # Len(s)
      BY <1>inner
    <3> QED  BY <1>1, <1>3, <3>1, <3>2, RangeLemma DEF IsInjective
  <2>2. ASSUME NEW x \in Range(s), x # Last(s) PROVE x \in Range(f)
    <3>1. PICK j \in 1 .. Len(s) : x = s[j]
      BY RangeLemma
    <3>2. j \in 1 .. Len(f)
      BY <1>1, <1>2, <1>3, <2>2, <3>1
    <3> QED  BY <1>2, <3>1, <3>2, RangeLemma
  <2> QED  BY <2>1, <2>2
<1>6. IsInjective(f)
  BY <1>1, <1>2 DEF IsInjective
<1> QED  BY <1>2, <1>4, <1>5, <1>6 DEF f

-----------------------------------------------------------------------------
(* What the three ways to change a call do.                                 *)
LEMMA CallLemma ==
    ASSUME call \in [Threads -> CallRecord], NEW t \in Threads,
           NEW step \in Steps, NEW u \in Urls,
           NEW r \in Responses \cup {NULL}, Call(t, step, u, r)
    PROVE  /\ call' \in [Threads -> CallRecord]
           /\ call'[t] = Frame(step, u, r, NULL, NULL)
           /\ \A s \in Threads : s # t => call'[s] = call[s]
<1>1. Frame(step, u, r, NULL, NULL) \in CallRecord
  BY DEF Frame, CallRecord
<1> QED  BY <1>1 DEF Call

LEMMA ReturnLemma ==
    ASSUME call \in [Threads -> CallRecord], NEW t \in Threads,
           NEW v \in Responses \cup Urls \cup {NULL, Wild}, Return(t, v)
    PROVE  /\ call' \in [Threads -> CallRecord]
           /\ call'[t] = Frame("idle", NULL, NULL, NULL, v)
           /\ \A s \in Threads : s # t => call'[s] = call[s]
<1>1. Idle(v) \in CallRecord
  BY DEF Frame, Idle, CallRecord, Steps
<1> QED  BY <1>1 DEF Return, Idle

LEMMA MoveLemma ==
    ASSUME call \in [Threads -> CallRecord], NEW t \in Threads,
           NEW step \in Steps, NEW e \in Entries \cup {NULL},
           NEW v \in Responses \cup Urls \cup {NULL, Wild}, Move(t, step, e, v)
    PROVE  /\ call' \in [Threads -> CallRecord]
           /\ call'[t] = Frame(step, call[t].url, call[t].val, e, v)
           /\ \A s \in Threads : s # t => call'[s] = call[s]
<1>1. call[t].url \in Urls \cup {NULL} /\ call[t].val \in Responses \cup {NULL}
  BY DEF CallRecord
<1>2. Frame(step, call[t].url, call[t].val, e, v) \in CallRecord
  BY <1>1 DEF Frame, CallRecord
<1> QED  BY <1>2 DEF Move

(* An empty cache.                                                          *)
LEMMA InitInv == Init => IInv
<1> SUFFICES ASSUME Init PROVE IInv
  OBVIOUS
<1> USE DEF Init, Idle, Frame, Holding
<1>1. Range(respList) = {} /\ IsInjective(respList) /\ respList \in Seq(Entries) /\ Len(respList) = 0
  BY DEF Range, IsInjective
<1>2. TypeOK
  BY <1>1 DEF TypeOK, Steps, CallRecord
<1>3. ListMapAgree /\ EntriesLive /\ EntriesGiven
  BY <1>1 DEF ListMapAgree, EntriesLive, EntriesGiven
<1>4. CapacityRespected
  BY <1>1, CapacityAssumption DEF CapacityRespected, At
<1>5. LockDiscipline
  BY NullAssumption DEF LockDiscipline
<1>6. OneOwner /\ CallsAgree
  BY <1>1, NullAssumption DEF OneOwner, CallsAgree, At
<1> QED  BY <1>2, <1>3, <1>4, <1>5, <1>6 DEF IInv

(* A segmentation fault leaves everything but the thread's own place.       *)
LEMMA CrashLemma ==
    ASSUME call \in [Threads -> CallRecord], NEW t \in Threads, Crash(t)
    PROVE  /\ call' \in [Threads -> CallRecord]
           /\ call'[t] = [call[t] EXCEPT !.at = "crashed"]
           /\ \A s \in Threads : s # t => call'[s] = call[s]
<1>1. [call[t] EXCEPT !.at = "crashed"] \in CallRecord
  BY DEF CallRecord, Steps
<1> QED  BY <1>1 DEF Crash

(* What a reader of an entry may get.                                        *)
LEMMA LoadedLemma ==
    ASSUME TypeOK, NEW e \in Entries
    PROVE  Loaded(e) \subseteq Responses \cup Urls \cup {NULL, Wild}
BY DEF Loaded, TypeOK

(* Every step keeps the types.  The typing of call->it and of the moved list *)
(* needs the rest of IInv.                                                  *)
LEMMA TypeStep == IInv /\ [Next]_vars => TypeOK'
<1> SUFFICES ASSUME IInv, [Next]_vars PROVE TypeOK'
  OBVIOUS
<1> USE DEF IInv, TypeOK
<1>0. CASE UNCHANGED vars
  BY <1>0 DEF vars
<1> SUFFICES ASSUME NEW t \in Threads, Calls(t) \/ Step(t) PROVE TypeOK'
  BY <1>0 DEF Next, Running, Dead
<1> NULL \in Responses \cup {NULL}
  OBVIOUS
<1> /\ "get" \in Steps /\ "expire" \in Steps /\ "put" \in Steps /\ "getRead" \in Steps
    /\ "expireRead" \in Steps /\ "putUpdate" \in Steps /\ "putPop" \in Steps
    /\ "putInsert" \in Steps /\ "putKey" \in Steps /\ "putLink" \in Steps
  BY DEF Steps, Holding
<1>call. /\ call[t].ret \in Responses \cup Urls \cup {NULL, Wild}
         /\ call[t].it \in Entries \cup {NULL}
         /\ call[t].val \in Responses \cup {NULL}
         /\ call[t].url \in Urls \cup {NULL}
  BY DEF CallRecord
<1>1. ASSUME NEW u \in Urls, GetCall(t, u) PROVE TypeOK'
  BY <1>1, CallLemma DEF GetCall
<1>2. ASSUME NEW u \in Urls, ExpireCall(t, u) PROVE TypeOK'
  BY <1>2, CallLemma DEF ExpireCall
<1>3. ASSUME NEW u \in Urls, NEW r \in Responses, PutCall(t, u, r) PROVE TypeOK'
  BY <1>3, CallLemma DEF PutCall
<1>4. CASE GetMiss(t)
  BY <1>4, ReturnLemma DEF GetMiss
<1>5. CASE GetHit(t)
  <2>1. PICK i \in DOMAIN respList : /\ respList[i] = map[call[t].url]
                                    /\ respList' = MoveToFront(respList, i)
    BY <1>5 DEF GetHit
  <2>2. respList' \in Seq(Entries) /\ map[call[t].url] \in Entries
    BY <2>1, MoveToFrontLemma, RangeLemma
  <2>3. call' \in [Threads -> CallRecord]
    BY <1>5, <2>2, MoveLemma DEF GetHit
  <2> QED  BY <1>5, <2>2, <2>3 DEF GetHit
<1>6. CASE GetRead(t)
  <2>1. call[t].it \in Entries
    BY <1>6 DEF GetRead, CallsAgree, At
  <2>2. PICK r \in Loaded(call[t].it) : Return(t, r)
    BY <1>6 DEF GetRead, ReadEntry
  <2> QED  BY <1>6, <2>1, <2>2, LoadedLemma, ReturnLemma DEF GetRead
<1>7. CASE PutFound(t)
  <2>1. call[t].url \in Urls /\ map[call[t].url] \in Entries
    BY <1>7 DEF PutFound, CallsAgree, At
  <2>2. call' \in [Threads -> CallRecord]
    BY <1>7, <2>1, MoveLemma DEF PutFound
  <2> QED  BY <1>7, <2>2 DEF PutFound
<1>8. CASE PutUpdate(t)
  <2>1. PICK i \in DOMAIN respList : respList' = MoveToFront(respList, i)
    BY <1>8 DEF PutUpdate
  <2>2. respList' \in Seq(Entries)
    BY <2>1, MoveToFrontLemma
  <2>3. call' \in [Threads -> CallRecord]
    BY <1>8, ReturnLemma DEF PutUpdate
  <2>4. entry' \in [Entries -> [url : Urls \cup {NULL}, resp : Responses \cup {NULL}]]
    <3>1. entry' = [entry EXCEPT ![call[t].it].resp = call[t].val]
      BY <1>8 DEF PutUpdate, Store
    <3>2. entry \in [Entries -> [url : Urls \cup {NULL}, resp : Responses \cup {NULL}]]
      OBVIOUS
    <3> HIDE DEF TypeOK, IInv
    <3> QED  BY <1>call, <3>1, <3>2
  <2>5. UNCHANGED <<map, life>> /\ cacheLock' = NULL
    BY <1>8 DEF PutUpdate, Unlock
  <2> QED  BY <2>2, <2>3, <2>4, <2>5
<1>9. CASE PutEvict(t)
  <2>0. Len(respList) > 0
    BY <1>9, CapacityAssumption DEF PutEvict, Full
  <2>1. entry[Last(respList)].url \in Urls
    BY <2>0, FrontLemma DEF ListMapAgree
  <2>2. call' \in [Threads -> CallRecord]
    BY <1>9, <2>1, MoveLemma DEF PutEvict
  <2> QED  BY <1>9, <2>1, <2>2 DEF PutEvict, Erase
<1>10. CASE PutPop(t)
  <2>full. Len(respList) = Capacity
    BY <1>10 DEF PutPop, CallsAgree, At, Full
  <2>0. Len(respList) > 0
    BY <2>full, CapacityAssumption
  <2>1. respList' \in Seq(Entries)
    BY <1>10, <2>0, FrontLemma DEF PutPop, ListMapAgree
  <2>2. call' \in [Threads -> CallRecord]
    BY <1>10, <1>call, MoveLemma DEF PutPop
  <2> QED  BY <1>10, <2>1, <2>2 DEF PutPop
<1>11. CASE PutMiss(t)
  <2>1. call' \in [Threads -> CallRecord]
    BY <1>11, MoveLemma DEF PutMiss
  <2> QED  BY <1>11, <2>1 DEF PutMiss
<1>12. CASE PutInsert(t)
  <2>1. PICK e \in Entries \ Range(respList) :
          /\ entry' = [entry EXCEPT ![e] = [url |-> call[t].url, resp |-> call[t].val]]
          /\ respList' = Cons(e, respList)
          /\ Move(t, "putKey", e, call[t].ret)
    BY <1>12 DEF PutInsert
  <2>2. respList' \in Seq(Entries)
    BY <2>1, ConsLemma
  <2>3. call' \in [Threads -> CallRecord]
    BY <1>call, <2>1, MoveLemma
  <2> QED  BY <1>12, <1>call, <2>1, <2>2, <2>3 DEF PutInsert
<1>13. CASE PutKey(t)
  <2>1. call' \in [Threads -> CallRecord]
    BY <1>13, <1>call, MoveLemma DEF PutKey
  <2> QED  BY <1>13, <1>call, <2>1 DEF PutKey
<1>14. CASE PutLink(t)
  BY <1>14, <1>call, ReturnLemma DEF PutLink, Unlock
<1>15. CASE ExpireFind(t)
  <2>1. call[t].url \in Urls /\ map[call[t].url] \in Entries
    BY <1>15 DEF ExpireFind, CallsAgree, At
  <2>2. call' \in [Threads -> CallRecord]
    BY <1>15, <2>1, MoveLemma DEF ExpireFind
  <2> QED  BY <1>15, <2>2 DEF ExpireFind
<1>16. CASE ExpireMiss(t)
  BY <1>16, ReturnLemma DEF ExpireMiss
<1>17. CASE ExpireRead(t)
  <2>1. call[t].it \in Entries
    BY <1>17 DEF ExpireRead, CallsAgree, At
  <2>2. PICK r \in Loaded(call[t].it) : Return(t, r)
    BY <1>17 DEF ExpireRead, ReadEntry
  <2> QED  BY <1>17, <2>1, <2>2, LoadedLemma, ReturnLemma DEF ExpireRead
<1>18. CASE ReadCrashes(t)
  BY <1>18, CrashLemma DEF ReadCrashes
<1> QED
  BY <1>1, <1>2, <1>3, <1>4, <1>5, <1>6, <1>7, <1>8, <1>9, <1>10, <1>11, <1>12,
     <1>13, <1>14, <1>15, <1>16, <1>17, <1>18 DEF Calls, Step

-----------------------------------------------------------------------------
(* While t has the mutex, or takes it, no other thread is between lock and   *)
(* unlock of a put.                                                          *)
LEMMA OneHolder ==
    ASSUME IInv, NEW t \in Threads, cacheLock = NULL \/ call[t].at \in Holding
    PROVE  \A s \in Threads : s # t \/ cacheLock = NULL => call[s].at \notin Holding
BY NullAssumption DEF IInv, LockDiscipline

(* A step that leaves the cache alone: only the thread's own call changes,   *)
(* and it neither is nor becomes part of a put.                              *)
LEMMA OutsideLemma ==
    ASSUME IInv, TypeOK', UNCHANGED <<cacheLock, respList, entry, map, life>>,
           NEW t \in Threads,
           call[t].val = NULL, call'[t].val = NULL,
           call'[t].at \notin {"put"} \cup Holding,
           call'[t].at # "idle" => call'[t].url \in Urls,
           call'[t].at \in {"getRead", "expireRead"} => call'[t].it \in Entries,
           \A s \in Threads : s # t => call'[s] = call[s]
    PROVE  IInv'
<1> USE DEF IInv
<1>0. /\ call[t].at \notin {"put"} \cup Holding
      /\ call[t].at \notin {"put", "putUpdate", "putPop", "putInsert", "putKey", "putLink"}
      /\ call'[t].at \notin {"put", "putUpdate", "putPop", "putInsert", "putKey", "putLink"}
  BY DEF CallsAgree, Holding
<1>1. EntriesGiven'
  BY DEF EntriesGiven
<1>2. CapacityRespected'
  BY <1>0 DEF CapacityRespected, At
<1>3. LockDiscipline'
  BY <1>0 DEF LockDiscipline
<1>4. EntriesLive'
  BY <1>0 DEF EntriesLive, At
<1>5. OneOwner'
  BY <1>0 DEF OneOwner
<1>6. CallsAgree'
  BY <1>0 DEF CallsAgree, At, Full
<1>7. ListMapAgree'
  BY <1>0 DEF ListMapAgree, At
<1> QED  BY <1>1, <1>2, <1>3, <1>4, <1>5, <1>6, <1>7

(* get moves the entry of its url to the front.                              *)
LEMMA GetHitInv == ASSUME IInv, TypeOK', NEW t \in Threads, GetHit(t) PROVE IInv'
<1> USE DEF IInv
<1>1. PICK i \in DOMAIN respList : /\ respList[i] = map[call[t].url]
                                  /\ respList' = MoveToFront(respList, i)
  BY DEF GetHit
<1>2. /\ Range(respList') = Range(respList)
      /\ Len(respList') = Len(respList)
      /\ IsInjective(respList')
  BY <1>1, MoveToFrontLemma DEF TypeOK, ListMapAgree
<1>3. map[call[t].url] \in Entries
  BY <1>1, RangeLemma DEF TypeOK
<1>4. /\ call'[t] = Frame("getRead", call[t].url, call[t].val, map[call[t].url], NULL)
      /\ \A s \in Threads : s # t => call'[s] = call[s]
  BY <1>3, MoveLemma DEF GetHit, TypeOK, Steps
<1>5. /\ call[t].at = "get" /\ call[t].val = NULL /\ call[t].url \in Urls
      /\ cacheLock = NULL
      /\ UNCHANGED <<cacheLock, entry, map, life>>
  BY DEF GetHit, At, CallsAgree, LockFree, Holding
<1>6. /\ call'[t].at = "getRead" /\ call'[t].val = NULL
      /\ call'[t].url \in Urls /\ call'[t].it \in Entries
  BY <1>3, <1>4, <1>5 DEF Frame
<1>h. /\ \A s \in Threads : call[s].at \notin Holding
      /\ \A s \in Threads : call'[s].at \notin Holding
      /\ \A s \in Threads :
            /\ call[s].at \notin {"putUpdate", "putPop", "putInsert", "putKey", "putLink"}
            /\ call'[s].at \notin {"putUpdate", "putPop", "putInsert", "putKey", "putLink"}
  BY <1>4, <1>5, <1>6, OneHolder DEF Holding
<1>7. ListMapAgree' /\ EntriesGiven'
  BY <1>2, <1>5, <1>h DEF ListMapAgree, EntriesGiven, At
<1>8. CapacityRespected'
  BY <1>2, <1>h DEF CapacityRespected, At
<1>9. LockDiscipline'
  BY <1>5, <1>h DEF LockDiscipline
<1>10. EntriesLive'
  BY <1>2, <1>5, <1>h DEF EntriesLive, At
<1>11. OneOwner'
  BY <1>2, <1>4, <1>5, <1>6, <1>h DEF OneOwner
<1>12. CallsAgree'
  BY <1>4, <1>5, <1>6, <1>h DEF CallsAgree, At
<1> QED  BY <1>7, <1>8, <1>9, <1>10, <1>11, <1>12

(* A response comes to put for the first time: nothing refers to it yet.     *)
LEMMA PutCallInv ==
    ASSUME IInv, TypeOK', NEW t \in Threads, NEW u \in Urls, NEW r \in Responses,
           PutCall(t, u, r)
    PROVE  IInv'
<1> USE DEF IInv
<1>1. /\ call'[t] = Frame("put", u, r, NULL, NULL)
      /\ \A s \in Threads : s # t => call'[s] = call[s]
  BY CallLemma DEF PutCall, TypeOK, Steps
<1>2. /\ call'[t].at = "put" /\ call'[t].val = r /\ call'[t].url = u
  BY <1>1 DEF Frame
<1>3. /\ call[t].at = "idle" /\ life[r] = "new"
      /\ UNCHANGED <<cacheLock, respList, entry, map>>
      /\ life'[r] = "given"
      /\ \A q \in Responses : q # r => life'[q] = life[q]
  BY DEF PutCall, Call, TypeOK
<1>h. /\ "idle" \notin Holding /\ "put" \notin Holding /\ NULL \notin Responses
  BY NullAssumption DEF Holding
<1>4. ListMapAgree'
  BY <1>1, <1>2, <1>3 DEF ListMapAgree, At
<1>5. EntriesGiven'
  BY <1>3 DEF EntriesGiven
<1>6. CapacityRespected'
  BY <1>1, <1>2, <1>3 DEF CapacityRespected, At
<1>7. LockDiscipline'
  BY <1>1, <1>2, <1>3, <1>h DEF LockDiscipline
<1>8. EntriesLive'
  BY <1>1, <1>2, <1>3 DEF EntriesLive, EntriesGiven, At
<1>9. OneOwner'
  <2>1. \A e \in Range(respList) : entry[e].resp # r
    BY <1>3 DEF EntriesGiven
  <2>2. \A s \in Threads : call[s].val # r /\ (call[s].val # NULL => call[s].val \in Responses)
    BY <1>3, NullAssumption DEF OneOwner, TypeOK, CallRecord
  <2>3. ASSUME NEW s \in Threads, call'[s].val # NULL
        PROVE  /\ life'[call'[s].val] = "given"
               /\ \A e \in Range(respList') : entry'[e].resp = call'[s].val =>
                     call'[s].at \in {"putKey", "putLink"} /\ call'[s].it = e
               /\ \A q \in Threads : call'[q].val = call'[s].val => q = s
    BY <1>1, <1>2, <1>3, <2>1, <2>2, <2>3 DEF OneOwner
  <2> QED  BY <1>3, <2>3 DEF OneOwner
<1>10. CallsAgree'
  BY <1>1, <1>2, <1>3, <1>h DEF CallsAgree, At, Full
<1> QED  BY <1>4, <1>5, <1>6, <1>7, <1>8, <1>9, <1>10

(* put deletes the response of the entry it found and now holds the mutex.   *)
LEMMA PutFoundInv == ASSUME IInv, TypeOK', NEW t \in Threads, PutFound(t) PROVE IInv'
<1> USE DEF IInv
<1> DEFINE it == map[call[t].url]
           old == entry[it].resp
<1>1. /\ call[t].at = "put" /\ call[t].url \in Urls /\ call[t].val # NULL
      /\ it # NULL /\ it \in Entries /\ it \in Range(respList)
      /\ cacheLock = NULL /\ cacheLock' = t
      /\ UNCHANGED <<respList, entry, map>>
      /\ life' = [life EXCEPT ![old] = "deleted"]
  <2>1. /\ call[t].at = "put" /\ it # NULL
        /\ cacheLock = NULL /\ cacheLock' = t
        /\ UNCHANGED <<respList, entry, map>>
        /\ life' = [life EXCEPT ![old] = "deleted"]
    BY DEF PutFound, At, LockFree
  <2>2. call[t].url \in Urls /\ call[t].val # NULL
    BY <2>1 DEF CallsAgree, At
  <2>3. it \in Entries /\ it \in Range(respList)
    BY <2>1, <2>2 DEF ListMapAgree, TypeOK
  <2> QED  BY <2>1, <2>2, <2>3
<1>2. /\ call'[t] = Frame("putUpdate", call[t].url, call[t].val, it, NULL)
      /\ \A s \in Threads : s # t => call'[s] = call[s]
  BY <1>1, MoveLemma DEF PutFound, TypeOK, Steps, Holding
<1>3. /\ call'[t].at = "putUpdate" /\ call'[t].val = call[t].val
      /\ call'[t].url = call[t].url /\ call'[t].it = it
  BY <1>2 DEF Frame
<1>4. /\ \A s \in Threads : call[s].at \notin Holding
      /\ \A s \in Threads : call[s].at \notin {"putUpdate", "putPop", "putInsert", "putKey", "putLink"}
      /\ "putUpdate" \in Holding
  BY <1>1, OneHolder DEF Holding
<1>5. /\ old \in Responses /\ life'[old] = "deleted"
      /\ \A r \in Responses : r # old => life'[r] = life[r]
  BY <1>1 DEF EntriesGiven, TypeOK
<1> HIDE DEF it, old
<1>6. ListMapAgree'
  BY <1>1, <1>4 DEF ListMapAgree, At
<1>7. EntriesGiven'
  BY <1>1, <1>5 DEF EntriesGiven
<1>8. CapacityRespected'
  BY <1>1, <1>2, <1>3, <1>4 DEF CapacityRespected, At
<1>9. LockDiscipline'
  BY <1>1, <1>2, <1>3, <1>4 DEF LockDiscipline
<1>10. EntriesLive'
  <2>1. \A e \in Range(respList) : e # it => entry[e].resp # old
    BY <1>1 DEF OneOwner, old
  <2>2. \A e \in Range(respList) : life[entry[e].resp] = "given"
    BY <1>4 DEF EntriesLive, At
  <2> QED  BY <1>1, <1>3, <1>5, <2>1, <2>2 DEF EntriesLive, EntriesGiven, At
<1>11. OneOwner'
  <2>1. \A s \in Threads : call'[s].val = call[s].val
    BY <1>2, <1>3
  <2>2. \A s \in Threads : call[s].val # NULL =>
           /\ call[s].val \in Responses
           /\ \A e \in Range(respList) : entry[e].resp # call[s].val
    BY <1>4 DEF OneOwner, TypeOK, CallRecord
  <2>3. \A s \in Threads : call[s].val # NULL => call[s].val # old
    BY <1>1, <2>2 DEF old
  <2> QED  BY <1>1, <1>5, <2>1, <2>2, <2>3 DEF OneOwner
<1>12. CallsAgree'
  <2>1. \A s \in Threads : s # t =>
           call'[s].at \notin {"putUpdate", "putPop", "putInsert", "putKey", "putLink"}
    BY <1>2, <1>4
  <2> QED  BY <1>1, <1>2, <1>3, <1>4, <2>1 DEF CallsAgree, At, it
<1> QED  BY <1>6, <1>7, <1>8, <1>9, <1>10, <1>11, <1>12

(* put replaces the deleted response and unlocks.                            *)
LEMMA PutUpdateInv == ASSUME IInv, TypeOK', NEW t \in Threads, PutUpdate(t) PROVE IInv'
<1> USE DEF IInv
<1> DEFINE it == call[t].it
           new == call[t].val
<1>1. /\ call[t].at = "putUpdate" /\ call[t].at \in Holding /\ call[t].url \in Urls
      /\ new \in Responses /\ new # NULL /\ it \in Entries
      /\ map[call[t].url] = it
      /\ cacheLock = t /\ cacheLock' = NULL
      /\ UNCHANGED <<map, life>>
      /\ entry' = [entry EXCEPT ![it].resp = new]
  BY DEF PutUpdate, Store, Unlock, At, LockDiscipline, CallsAgree, TypeOK, CallRecord,
         Holding
<1>2. PICK i \in DOMAIN respList : respList' = MoveToFront(respList, i)
  BY DEF PutUpdate
<1>3. /\ Range(respList') = Range(respList)
      /\ Len(respList') = Len(respList)
      /\ IsInjective(respList')
  BY <1>2, MoveToFrontLemma DEF TypeOK, ListMapAgree
<1>4. /\ call'[t] = Frame("idle", NULL, NULL, NULL, NULL)
      /\ \A s \in Threads : s # t => call'[s] = call[s]
  BY ReturnLemma DEF PutUpdate, TypeOK
<1>5. call'[t].at = "idle" /\ call'[t].val = NULL
  BY <1>4 DEF Frame
<1>6. /\ \A s \in Threads : s # t => call[s].at \notin Holding
      /\ \A s \in Threads : s # t =>
            call[s].at \notin {"putUpdate", "putPop", "putInsert", "putKey", "putLink"}
      /\ "idle" \notin Holding
  BY <1>1, OneHolder DEF Holding
<1>7. /\ entry'[it].resp = new /\ \A e \in Entries : entry'[e].url = entry[e].url
      /\ \A e \in Entries : e # it => entry'[e].resp = entry[e].resp
  BY <1>1 DEF TypeOK
<1>8. /\ life[new] = "given"
      /\ \A e \in Range(respList) : entry[e].resp # new
      /\ \A s \in Threads : s # t => call[s].val # new
  BY <1>1 DEF OneOwner
<1>9. \A e \in Range(respList) : e \in Entries
  BY RangeLemma DEF TypeOK
<1>h. \A s \in Threads : call'[s].at \notin {"putUpdate", "putPop", "putInsert", "putKey", "putLink"}
  BY <1>4, <1>5, <1>6
<1> HIDE DEF it, new
<1>10. ListMapAgree'
  BY <1>1, <1>3, <1>6, <1>7, <1>9 DEF ListMapAgree, At
<1>11. EntriesGiven'
  BY <1>1, <1>3, <1>7, <1>8, <1>9 DEF EntriesGiven
<1>12. CapacityRespected'
  BY <1>3, <1>h DEF CapacityRespected, At
<1>13. LockDiscipline'
  BY <1>1, <1>4, <1>5, <1>6, NullAssumption DEF LockDiscipline
<1>14. EntriesLive'
  <2>1. \A e \in Range(respList) : e # it => life[entry[e].resp] = "given"
    BY <1>6 DEF EntriesLive, At, it
  <2> QED  BY <1>1, <1>3, <1>7, <1>8, <1>9, <2>1 DEF EntriesLive
<1>15. OneOwner'
  <2>1. \A e, f \in Range(respList') : entry'[e].resp = entry'[f].resp => e = f
    BY <1>3, <1>7, <1>8, <1>9 DEF OneOwner
  <2>2. ASSUME NEW s \in Threads, call'[s].val # NULL
        PROVE  /\ life'[call'[s].val] = "given"
               /\ \A e \in Range(respList') : entry'[e].resp # call'[s].val
               /\ \A q \in Threads : call'[q].val = call'[s].val => q = s
    <3>1. s # t /\ call'[s] = call[s]
      BY <1>4, <1>5, <2>2
    <3>2. \A e \in Range(respList) : entry[e].resp # call[s].val
      BY <1>6, <2>2, <3>1 DEF OneOwner
    <3> QED  BY <1>1, <1>3, <1>4, <1>5, <1>7, <1>8, <1>9, <2>2, <3>1, <3>2 DEF OneOwner
  <2> QED  BY <2>1, <2>2 DEF OneOwner
<1>16. CallsAgree'
  BY <1>1, <1>4, <1>5, <1>6, <1>h DEF CallsAgree, At
<1> QED  BY <1>10, <1>11, <1>12, <1>13, <1>14, <1>15, <1>16

(* put erases the url of the last entry, whose node is still in the list.    *)
LEMMA PutEvictInv == ASSUME IInv, TypeOK', NEW t \in Threads, PutEvict(t) PROVE IInv'
<1> USE DEF IInv
<1> DEFINE last == Last(respList)
           victim == entry[last].url
<1>1. /\ respList \in Seq(Entries) /\ Len(respList) = Capacity /\ Capacity \in Nat \ {0}
      /\ IsInjective(respList) /\ Full
  BY CapacityAssumption DEF PutEvict, Full, TypeOK, ListMapAgree
<1>2. last \in Range(respList) /\ last \in Entries
  <2> HIDE DEF IInv
  <2>1. Len(respList) > 0
    BY <1>1
  <2> QED  BY <1>1, <2>1, FrontLemma, RangeLemma
<1>4. /\ call[t].at = "put" /\ call[t].url \in Urls /\ call[t].val # NULL
      /\ map[call[t].url] = NULL
      /\ cacheLock = NULL /\ cacheLock' = t
      /\ UNCHANGED <<respList, entry, life>>
      /\ map' = [map EXCEPT ![victim] = NULL]
  BY DEF PutEvict, Erase, At, LockFree, CallsAgree
<1>7. /\ \A s \in Threads : call[s].at \notin Holding
      /\ \A s \in Threads : call[s].at \notin {"putUpdate", "putPop", "putInsert", "putKey", "putLink"}
      /\ "putPop" \in Holding
  BY <1>4, OneHolder DEF Holding
<1>3. victim \in Urls /\ \A e \in Range(respList) : map[entry[e].url] = e
  BY <1>2, <1>7 DEF ListMapAgree, At
<1>5. /\ call'[t] = Frame("putPop", call[t].url, call[t].val, NULL, victim)
      /\ \A s \in Threads : s # t => call'[s] = call[s]
  <2>1. "putPop" \in Steps /\ NULL \in Entries \cup {NULL}
        /\ victim \in Responses \cup Urls \cup {NULL, Wild}
    BY <1>3 DEF Steps, Holding
  <2>2. Move(t, "putPop", NULL, victim)
    BY DEF PutEvict
  <2>3. call \in [Threads -> CallRecord]
    BY DEF TypeOK
  <2> HIDE DEF IInv
  <2> QED  BY <2>1, <2>2, <2>3, MoveLemma
<1>6. /\ call'[t].at = "putPop" /\ call'[t].val = call[t].val
      /\ call'[t].url = call[t].url
  BY <1>5 DEF Frame
<1>8. /\ map'[victim] = NULL /\ \A u \in Urls : u # victim => map'[u] = map[u]
      /\ map[victim] = last /\ last # NULL
  BY <1>2, <1>3, <1>4, NullAssumption DEF TypeOK
<1> HIDE DEF last, victim
<1>9. ListMapAgree'
  <2>1. \A u \in Urls : map'[u] # NULL =>
           map'[u] \in Range(respList') /\ entry'[map'[u]].url = u
    BY <1>4, <1>8 DEF ListMapAgree
  <2>2. ASSUME NEW e \in Range(respList)
        PROVE  entry[e].url \in Urls /\ (map'[entry[e].url] = e \/ e = last)
    <3>1. entry[e].url \in Urls /\ map[entry[e].url] = e
      BY <1>3 DEF ListMapAgree
    <3> QED  BY <1>8, <3>1
  <2>3. At(t, "putPop")'
    BY <1>6 DEF At
  <2> QED  BY <1>1, <1>4, <2>1, <2>2, <2>3 DEF ListMapAgree, last
<1>10. EntriesGiven'
  BY <1>4 DEF EntriesGiven
<1>11. CapacityRespected'
  BY <1>4, <1>5, <1>6, <1>7 DEF CapacityRespected, At
<1>12. LockDiscipline'
  BY <1>4, <1>5, <1>6, <1>7 DEF LockDiscipline
<1>13. EntriesLive'
  BY <1>4, <1>7 DEF EntriesLive, At
<1>14. OneOwner'
  BY <1>4, <1>5, <1>6, <1>7 DEF OneOwner
<1>15. CallsAgree'
  <2>1. \A s \in Threads : s # t =>
           call'[s].at \notin {"putUpdate", "putPop", "putInsert", "putKey", "putLink"}
    BY <1>5, <1>7
  <2>2. /\ map'[call'[t].url] = NULL /\ Full' /\ map'[entry'[Last(respList')].url] = NULL
        /\ entry'[Last(respList')].url # call'[t].url
    BY <1>1, <1>4, <1>6, <1>8 DEF Full, last, victim
  <2> QED  BY <1>4, <1>5, <1>6, <1>7, <2>1, <2>2 DEF CallsAgree, At
<1> QED  BY <1>9, <1>10, <1>11, <1>12, <1>13, <1>14, <1>15

(* put drops the last entry, whose url has gone.                             *)
LEMMA PutPopInv == ASSUME IInv, TypeOK', NEW t \in Threads, PutPop(t) PROVE IInv'
<1> USE DEF IInv
<1> DEFINE last == Last(respList)
           victim == entry[last].url
<1>1. /\ call[t].at = "putPop" /\ call[t].at \in Holding
      /\ call[t].url \in Urls /\ call[t].val # NULL
      /\ map[call[t].url] = NULL /\ map[victim] = NULL
      /\ Len(respList) = Capacity /\ Capacity \in Nat \ {0}
      /\ respList \in Seq(Entries) /\ IsInjective(respList)
      /\ respList' = Front(respList)
      /\ UNCHANGED <<cacheLock, entry, map, life>>
  BY CapacityAssumption DEF PutPop, At, CallsAgree, Full, TypeOK, ListMapAgree, Holding
<1>2. /\ Len(respList') = Len(respList) - 1
      /\ Range(respList') = Range(respList) \ {last}
      /\ IsInjective(respList')
  <2> HIDE DEF IInv
  <2> QED  BY <1>1, FrontLemma
<1>3. /\ call'[t] = Frame("putInsert", call[t].url, call[t].val, NULL, call[t].ret)
      /\ \A s \in Threads : s # t => call'[s] = call[s]
  <2>1. /\ "putInsert" \in Steps /\ NULL \in Entries \cup {NULL}
        /\ call[t].ret \in Responses \cup Urls \cup {NULL, Wild}
    BY DEF Steps, Holding, TypeOK, CallRecord
  <2>2. Move(t, "putInsert", NULL, call[t].ret)
    BY DEF PutPop
  <2>3. call \in [Threads -> CallRecord]
    BY DEF TypeOK
  <2> HIDE DEF IInv
  <2> QED  BY <2>1, <2>2, <2>3, MoveLemma
<1>4. /\ call'[t].at = "putInsert" /\ call'[t].val = call[t].val
      /\ call'[t].url = call[t].url
  BY <1>3 DEF Frame
<1>5. /\ \A s \in Threads : s # t => call[s].at \notin Holding
      /\ \A s \in Threads : s # t =>
            call[s].at \notin {"putUpdate", "putPop", "putInsert", "putKey", "putLink"}
      /\ "putInsert" \in Holding
  BY <1>1, OneHolder DEF Holding
<1> HIDE DEF last, victim
<1>6. ListMapAgree'
  <2>1. \A u \in Urls : map'[u] # NULL =>
           map'[u] \in Range(respList') /\ entry'[map'[u]].url = u
    BY <1>1, <1>2 DEF ListMapAgree, victim
  <2>2. \A e \in Range(respList') : entry'[e].url \in Urls /\ map'[entry'[e].url] = e
    BY <1>1, <1>2, <1>5 DEF ListMapAgree, At, last
  <2> QED  BY <1>2, <2>1, <2>2 DEF ListMapAgree
<1>7. EntriesGiven'
  BY <1>1, <1>2 DEF EntriesGiven
<1>8. CapacityRespected'
  BY <1>1, <1>2 DEF CapacityRespected
<1>9. LockDiscipline'
  BY <1>1, <1>3, <1>4, <1>5 DEF LockDiscipline
<1>10. EntriesLive'
  BY <1>1, <1>2, <1>5 DEF EntriesLive, At
<1>11. OneOwner'
  <2>1. \A s \in Threads : call[s].val # NULL =>
           \A e \in Range(respList') : entry[e].resp = call[s].val =>
               s # t /\ call[s].at \in {"putKey", "putLink"} /\ call[s].it = e
    BY <1>1, <1>2 DEF OneOwner
  <2> QED  BY <1>1, <1>2, <1>3, <1>4, <2>1 DEF OneOwner
<1>12. CallsAgree'
  <2>1. \A s \in Threads : s # t =>
           call'[s].at \notin {"putUpdate", "putPop", "putInsert", "putKey", "putLink"}
    BY <1>3, <1>5
  <2> QED  BY <1>1, <1>3, <1>4, <1>5, <2>1 DEF CallsAgree, At
<1> QED  BY <1>6, <1>7, <1>8, <1>9, <1>10, <1>11, <1>12

(* put finds room and now holds the mutex.                                   *)
LEMMA PutMissInv == ASSUME IInv, TypeOK', NEW t \in Threads, PutMiss(t) PROVE IInv'
<1> USE DEF IInv
<1>1. /\ call[t].at = "put" /\ call[t].url \in Urls /\ call[t].val # NULL
      /\ map[call[t].url] = NULL
      /\ cacheLock = NULL /\ cacheLock' = t
      /\ UNCHANGED <<respList, entry, map, life>>
  BY DEF PutMiss, At, LockFree, CallsAgree
<1>2. Len(respList) < Capacity
  <2>1. Len(respList) \in Nat /\ Capacity \in Nat
    BY CapacityAssumption DEF TypeOK
  <2> QED  BY <2>1 DEF PutMiss, Full, CapacityRespected
<1>3. /\ call'[t] = Frame("putInsert", call[t].url, call[t].val, NULL, NULL)
      /\ \A s \in Threads : s # t => call'[s] = call[s]
  <2>1. "putInsert" \in Steps /\ NULL \in Entries \cup {NULL}
        /\ NULL \in Responses \cup Urls \cup {NULL, Wild}
    BY DEF Steps, Holding
  <2>2. Move(t, "putInsert", NULL, NULL)
    BY DEF PutMiss
  <2>3. call \in [Threads -> CallRecord]
    BY DEF TypeOK
  <2> HIDE DEF IInv
  <2> QED  BY <2>1, <2>2, <2>3, MoveLemma
<1>4. /\ call'[t].at = "putInsert" /\ call'[t].val = call[t].val
      /\ call'[t].url = call[t].url
  BY <1>3 DEF Frame
<1>5. /\ \A s \in Threads : call[s].at \notin Holding
      /\ \A s \in Threads : call[s].at \notin {"putUpdate", "putPop", "putInsert", "putKey", "putLink"}
      /\ "putInsert" \in Holding
  BY <1>1, OneHolder DEF Holding
<1>6. ListMapAgree' /\ EntriesGiven'
  BY <1>1, <1>5 DEF ListMapAgree, EntriesGiven, At
<1>7. CapacityRespected'
  BY <1>1, <1>2 DEF CapacityRespected
<1>8. LockDiscipline'
  BY <1>1, <1>3, <1>4, <1>5 DEF LockDiscipline
<1>9. EntriesLive'
  BY <1>1, <1>5 DEF EntriesLive, At
<1>10. OneOwner'
  BY <1>1, <1>3, <1>4, <1>5 DEF OneOwner
<1>11. CallsAgree'
  <2>1. \A s \in Threads : s # t =>
           call'[s].at \notin {"putUpdate", "putPop", "putInsert", "putKey", "putLink"}
    BY <1>3, <1>5
  <2> QED  BY <1>1, <1>3, <1>4, <1>5, <2>1 DEF CallsAgree, At
<1> QED  BY <1>6, <1>7, <1>8, <1>9, <1>10, <1>11

(* put has a fresh entry in front, which no url leads to yet.                *)
LEMMA PutInsertInv == ASSUME IInv, TypeOK', NEW t \in Threads, PutInsert(t) PROVE IInv'
<1> USE DEF IInv
<1> DEFINE url == call[t].url
           new == call[t].val
<1>1. PICK e \in Entries \ Range(respList) :
        /\ entry' = [entry EXCEPT ![e] = [url |-> url, resp |-> new]]
        /\ respList' = Cons(e, respList)
        /\ Move(t, "putKey", e, call[t].ret)
  BY DEF PutInsert
<1>2. /\ Range(respList') = Range(respList) \cup {e}
      /\ Len(respList') = Len(respList) + 1
      /\ IsInjective(respList')
  <2>1. respList \in Seq(Entries) /\ IsInjective(respList)
    BY DEF TypeOK, ListMapAgree
  <2>2. e \in Entries /\ e \notin Range(respList) /\ respList' = Cons(e, respList)
    BY <1>1
  <2> HIDE DEF IInv
  <2> QED  BY <2>1, <2>2, ConsLemma
<1>3. /\ call[t].at = "putInsert" /\ call[t].at \in Holding /\ url \in Urls /\ map[url] = NULL
      /\ new \in Responses /\ new # NULL
      /\ cacheLock = t
      /\ Len(respList) < Capacity
      /\ UNCHANGED <<cacheLock, map, life>>
  BY DEF PutInsert, At, LockDiscipline, CapacityRespected, CallsAgree, TypeOK, CallRecord,
         Holding
<1>4. /\ call'[t] = Frame("putKey", url, new, e, call[t].ret)
      /\ \A s \in Threads : s # t => call'[s] = call[s]
  <2>1. /\ "putKey" \in Steps /\ e \in Entries \cup {NULL}
        /\ call[t].ret \in Responses \cup Urls \cup {NULL, Wild}
    BY DEF Steps, Holding, TypeOK, CallRecord
  <2>2. call \in [Threads -> CallRecord]
    BY DEF TypeOK
  <2> HIDE DEF IInv
  <2> QED  BY <1>1, <2>1, <2>2, MoveLemma
<1>5. /\ \A s \in Threads : s # t => call[s].at \notin Holding
      /\ \A s \in Threads : s # t =>
            call[s].at \notin {"putUpdate", "putPop", "putInsert", "putKey", "putLink"}
      /\ "putKey" \in Holding
  BY <1>3, OneHolder DEF Holding
<1>6. /\ entry'[e] = [url |-> url, resp |-> new]
      /\ entry'[e].url = url /\ entry'[e].resp = new
      /\ \A f \in Range(respList) : f \in Entries /\ f # e /\ entry'[f] = entry[f]
  BY <1>1, RangeLemma DEF TypeOK
<1>7. /\ call'[t].at = "putKey" /\ call'[t].val = new /\ call'[t].url = url
      /\ call'[t].it = e
  BY <1>4 DEF Frame
<1>8. /\ life[new] = "given"
      /\ \A f \in Range(respList) : entry[f].resp # new
      /\ \A s \in Threads : s # t => call[s].val # new
  BY <1>3 DEF OneOwner
<1>9. \A f \in Range(respList) : map[entry[f].url] = f /\ entry[f].url \in Urls
  BY <1>3, <1>5 DEF ListMapAgree, At
<1>h. \A s \in Threads : s # t =>
         call'[s].at \notin {"putUpdate", "putPop", "putInsert", "putKey", "putLink"}
  BY <1>4, <1>5
<1> HIDE DEF url, new
<1>10. ListMapAgree'
  <2>1. \A u \in Urls : map'[u] # NULL =>
           map'[u] \in Range(respList') /\ entry'[map'[u]].url = u
    BY <1>2, <1>3, <1>6 DEF ListMapAgree
  <2>2. \A f \in Range(respList') :
           entry'[f].url \in Urls /\ (map'[entry'[f].url] = f \/ f = e)
    BY <1>2, <1>3, <1>6, <1>9
  <2>3. At(t, "putKey")' /\ call'[t].it = e
    BY <1>7 DEF At
  <2> QED  BY <1>2, <2>1, <2>2, <2>3 DEF ListMapAgree
<1>11. EntriesGiven'
  BY <1>2, <1>3, <1>6, <1>8 DEF EntriesGiven
<1>12. CapacityRespected'
  <2>1. Len(respList) \in Nat /\ Capacity \in Nat
    BY CapacityAssumption DEF TypeOK
  <2>2. \A s \in Threads : call'[s].at # "putInsert"
    BY <1>7, <1>h
  <2> QED  BY <1>2, <1>3, <2>1, <2>2 DEF CapacityRespected, At
<1>13. LockDiscipline'
  BY <1>3, <1>4, <1>5, <1>7 DEF LockDiscipline
<1>14. EntriesLive'
  <2>1. \A f \in Range(respList) : life[entry[f].resp] = "given"
    BY <1>3, <1>5 DEF EntriesLive, At
  <2> QED  BY <1>2, <1>3, <1>6, <1>8, <2>1 DEF EntriesLive
<1>15. OneOwner'
  <2>1. \A f, g \in Range(respList') : entry'[f].resp = entry'[g].resp => f = g
    BY <1>2, <1>6, <1>8 DEF OneOwner
  <2>2. ASSUME NEW s \in Threads, call'[s].val # NULL
        PROVE  /\ life'[call'[s].val] = "given"
               /\ \A f \in Range(respList') : entry'[f].resp = call'[s].val =>
                     call'[s].at \in {"putKey", "putLink"} /\ call'[s].it = f
               /\ \A q \in Threads : call'[q].val = call'[s].val => q = s
    <3>1. \A f \in Range(respList) : entry[f].resp # call'[s].val
      <4>1. CASE s = t
        BY <1>7, <1>8, <4>1
      <4>2. CASE s # t
        BY <1>4, <1>5, <2>2, <4>2 DEF OneOwner
      <4> QED  BY <4>1, <4>2
    <3>2. \A f \in Range(respList') : entry'[f].resp = call'[s].val =>
              s = t /\ f = e
      BY <1>2, <1>4, <1>6, <1>8, <3>1
    <3>3. life'[call'[s].val] = "given"
          /\ \A q \in Threads : call'[q].val = call'[s].val => q = s
      BY <1>3, <1>4, <1>7, <1>8, <2>2 DEF OneOwner
    <3> QED  BY <1>7, <3>2, <3>3
  <2> QED  BY <2>1, <2>2 DEF OneOwner
<1>16. CallsAgree'
  BY <1>2, <1>3, <1>4, <1>5, <1>6, <1>7, <1>h DEF CallsAgree, At
<1> QED  BY <1>10, <1>11, <1>12, <1>13, <1>14, <1>15, <1>16

(* put has its url in the map.                                               *)
LEMMA PutKeyInv == ASSUME IInv, TypeOK', NEW t \in Threads, PutKey(t) PROVE IInv'
<1> USE DEF IInv
<1> DEFINE url == call[t].url
           it == call[t].it
<1>1. /\ call[t].at = "putKey" /\ call[t].at \in Holding /\ url \in Urls
      /\ call[t].val # NULL /\ it \in Entries /\ it # NULL /\ it \in Range(respList)
      /\ map[url] = NULL /\ entry[it] = [url |-> url, resp |-> call[t].val]
      /\ entry[it].url = url
      /\ UNCHANGED <<cacheLock, respList, entry, life>>
      /\ map' = [map EXCEPT ![url] = it]
  BY NullAssumption DEF PutKey, At, CallsAgree, Holding
<1>2. /\ call'[t] = Frame("putLink", url, call[t].val, it, call[t].ret)
      /\ \A s \in Threads : s # t => call'[s] = call[s]
  <2>1. /\ "putLink" \in Steps /\ it \in Entries \cup {NULL}
        /\ call[t].ret \in Responses \cup Urls \cup {NULL, Wild}
    BY <1>1 DEF Steps, Holding, TypeOK, CallRecord
  <2>2. Move(t, "putLink", it, call[t].ret)
    BY DEF PutKey
  <2>3. call \in [Threads -> CallRecord]
    BY DEF TypeOK
  <2> HIDE DEF IInv
  <2> QED  BY <2>1, <2>2, <2>3, MoveLemma
<1>3. /\ call'[t].at = "putLink" /\ call'[t].val = call[t].val
      /\ call'[t].url = url /\ call'[t].it = it
  BY <1>2 DEF Frame
<1>4. /\ \A s \in Threads : s # t => call[s].at \notin Holding
      /\ \A s \in Threads : s # t =>
            call[s].at \notin {"putUpdate", "putPop", "putInsert", "putKey", "putLink"}
      /\ "putLink" \in Holding
  BY <1>1, OneHolder DEF Holding
<1>5. map'[url] = it /\ \A u \in Urls : u # url => map'[u] = map[u]
  BY <1>1 DEF TypeOK
<1>h. \A s \in Threads : s # t =>
         call'[s].at \notin {"putUpdate", "putPop", "putInsert", "putKey", "putLink"}
  BY <1>2, <1>4
<1> HIDE DEF url, it
<1>6. ListMapAgree'
  <2>1. \A u \in Urls : map'[u] # NULL =>
           map'[u] \in Range(respList') /\ entry'[map'[u]].url = u
    BY <1>1, <1>5 DEF ListMapAgree
  <2>2. ASSUME NEW e \in Range(respList)
        PROVE  entry[e].url \in Urls /\ map'[entry[e].url] = e
    <3>1. CASE e = it
      BY <1>1, <1>5, <3>1
    <3>2. CASE e # it
      <4>1. /\ entry[e].url \in Urls /\ map[entry[e].url] = e
        BY <1>1, <1>4, <3>2 DEF ListMapAgree, At, it
      <4>2. e # NULL
        BY NullAssumption, RangeLemma DEF TypeOK
      <4> QED  BY <1>1, <1>5, <4>1, <4>2
    <3> QED  BY <3>1, <3>2
  <2>3. IsInjective(respList)
    BY DEF ListMapAgree
  <2> QED  BY <1>1, <2>1, <2>2, <2>3 DEF ListMapAgree
<1>7. EntriesGiven'
  BY <1>1 DEF EntriesGiven
<1>8. CapacityRespected'
  BY <1>1, <1>3, <1>h DEF CapacityRespected, At
<1>9. LockDiscipline'
  BY <1>1, <1>2, <1>3, <1>4 DEF LockDiscipline
<1>10. EntriesLive'
  BY <1>1, <1>4 DEF EntriesLive, At
<1>11. OneOwner'
  BY <1>1, <1>2, <1>3 DEF OneOwner, it
<1>12. CallsAgree'
  BY <1>1, <1>2, <1>3, <1>4, <1>5, <1>h DEF CallsAgree, At
<1> QED  BY <1>6, <1>7, <1>8, <1>9, <1>10, <1>11, <1>12

(* put has assigned the iterator, and unlocks.                               *)
LEMMA PutLinkInv == ASSUME IInv, TypeOK', NEW t \in Threads, PutLink(t) PROVE IInv'
<1> USE DEF IInv
<1>1. /\ call[t].at = "putLink" /\ call[t].at \in Holding
      /\ cacheLock = t /\ cacheLock' = NULL
      /\ UNCHANGED <<respList, entry, map, life>>
  BY DEF PutLink, Unlock, At, LockDiscipline, Holding
<1>2. /\ call'[t] = Frame("idle", NULL, NULL, NULL, call[t].ret)
      /\ \A s \in Threads : s # t => call'[s] = call[s]
  <2>1. call \in [Threads -> CallRecord] /\ call[t].ret \in Responses \cup Urls \cup {NULL, Wild}
    BY DEF TypeOK, CallRecord
  <2>2. Return(t, call[t].ret)
    BY DEF PutLink
  <2> HIDE DEF IInv
  <2> QED  BY <2>1, <2>2, ReturnLemma
<1>3. call'[t].at = "idle" /\ call'[t].val = NULL
  BY <1>2 DEF Frame
<1>4. /\ \A s \in Threads : s # t => call[s].at \notin Holding
      /\ \A s \in Threads : s # t =>
            call[s].at \notin {"putUpdate", "putPop", "putInsert", "putKey", "putLink"}
      /\ "idle" \notin Holding
  BY <1>1, OneHolder DEF Holding
<1>h. \A s \in Threads : call'[s].at \notin {"putUpdate", "putPop", "putInsert", "putKey", "putLink"}
  BY <1>2, <1>3, <1>4
<1>5. ListMapAgree' /\ EntriesGiven'
  BY <1>1, <1>4 DEF ListMapAgree, EntriesGiven, At
<1>6. CapacityRespected'
  BY <1>1, <1>h DEF CapacityRespected, At
<1>7. LockDiscipline'
  BY <1>1, <1>2, <1>3, <1>4, NullAssumption DEF LockDiscipline
<1>8. EntriesLive'
  BY <1>1, <1>4 DEF EntriesLive, At
<1>9. OneOwner'
  BY <1>1, <1>2, <1>3 DEF OneOwner
<1>10. CallsAgree'
  BY <1>1, <1>2, <1>3, <1>4, <1>h DEF CallsAgree, At
<1> QED  BY <1>5, <1>6, <1>7, <1>8, <1>9, <1>10

-----------------------------------------------------------------------------
(* Every step keeps IInv.                                                    *)
LEMMA StepInv == IInv /\ [Next]_vars => IInv'
<1> SUFFICES ASSUME IInv, [Next]_vars PROVE IInv'
  OBVIOUS
<1>0. TypeOK'
  BY TypeStep
<1>1. CASE UNCHANGED vars
  BY <1>1 DEF vars, IInv, TypeOK, ListMapAgree, CapacityRespected, LockDiscipline,
              EntriesLive, OneOwner, CallsAgree, EntriesGiven, At, Full
<1> SUFFICES ASSUME NEW t \in Threads, Calls(t) \/ Step(t) PROVE IInv'
  BY <1>1 DEF Next, Running, Dead
<1>call. call \in [Threads -> CallRecord] /\ NULL \in Responses \cup {NULL}
  BY DEF IInv, TypeOK
<1>val. call[t].at \in {"idle", "get", "getRead", "expire", "expireRead"} => call[t].val = NULL
  BY DEF IInv, CallsAgree, Holding
<1>2. ASSUME NEW u \in Urls, GetCall(t, u) PROVE IInv'
  <2>1. /\ call'[t] = Frame("get", u, NULL, NULL, NULL)
        /\ \A s \in Threads : s # t => call'[s] = call[s]
    BY <1>2, <1>call, CallLemma DEF GetCall, Steps
  <2>2. call[t].val = NULL
    BY <1>2, <1>val DEF GetCall, Call
  <2> QED  BY <1>0, <1>2, <2>1, <2>2, OutsideLemma DEF GetCall, Frame, Holding
<1>3. ASSUME NEW u \in Urls, ExpireCall(t, u) PROVE IInv'
  <2>1. /\ call'[t] = Frame("expire", u, NULL, NULL, NULL)
        /\ \A s \in Threads : s # t => call'[s] = call[s]
    BY <1>3, <1>call, CallLemma DEF ExpireCall, Steps
  <2>2. call[t].val = NULL
    BY <1>3, <1>val DEF ExpireCall, Call
  <2> QED  BY <1>0, <1>3, <2>1, <2>2, OutsideLemma DEF ExpireCall, Frame, Holding
<1>4. ASSUME NEW u \in Urls, NEW r \in Responses, PutCall(t, u, r) PROVE IInv'
  BY <1>0, <1>4, PutCallInv
<1>5. ASSUME NEW v \in Responses \cup Urls \cup {NULL, Wild}, Return(t, v),
             UNCHANGED <<cacheLock, respList, entry, map, life>>,
             call[t].val = NULL
      PROVE  IInv'
  <2>1. /\ call'[t] = Frame("idle", NULL, NULL, NULL, v)
        /\ \A s \in Threads : s # t => call'[s] = call[s]
    BY <1>5, <1>call, ReturnLemma
  <2> QED  BY <1>0, <1>5, <2>1, OutsideLemma DEF Frame, Holding
<1>6. ASSUME ReadEntry(t), call[t].at \in {"getRead", "expireRead"},
             UNCHANGED <<cacheLock, respList, entry, map, life>>
      PROVE  IInv'
  <2>1. call[t].it \in Entries /\ call[t].val = NULL
    BY <1>6, <1>val DEF IInv, CallsAgree
  <2>2. PICK r \in Loaded(call[t].it) : Return(t, r)
    BY <1>6 DEF ReadEntry
  <2> QED  BY <1>5, <1>6, <2>1, <2>2, LoadedLemma DEF IInv
<1>7. CASE GetMiss(t)
  BY <1>5, <1>7, <1>val DEF GetMiss, At
<1>8. CASE GetHit(t)
  BY <1>0, <1>8, GetHitInv
<1>9. CASE GetRead(t)
  BY <1>6, <1>9 DEF GetRead, At
<1>10. CASE PutFound(t)
  BY <1>0, <1>10, PutFoundInv
<1>11. CASE PutUpdate(t)
  BY <1>0, <1>11, PutUpdateInv
<1>12. CASE PutEvict(t)
  BY <1>0, <1>12, PutEvictInv
<1>13. CASE PutPop(t)
  BY <1>0, <1>13, PutPopInv
<1>14. CASE PutMiss(t)
  BY <1>0, <1>14, PutMissInv
<1>15. CASE PutInsert(t)
  BY <1>0, <1>15, PutInsertInv
<1>16. CASE PutKey(t)
  BY <1>0, <1>16, PutKeyInv
<1>17. CASE PutLink(t)
  BY <1>0, <1>17, PutLinkInv
<1>18. CASE ExpireFind(t)
  <2>1. /\ call[t].url \in Urls /\ call[t].val = NULL
        /\ map[call[t].url] \in Entries
        /\ "expireRead" \in Steps /\ NULL \in Responses \cup Urls \cup {NULL, Wild}
    BY <1>18, <1>val DEF ExpireFind, At, IInv, CallsAgree, TypeOK, Steps
  <2>2. /\ call'[t] = Frame("expireRead", call[t].url, call[t].val, map[call[t].url], NULL)
        /\ \A s \in Threads : s # t => call'[s] = call[s]
    BY <1>18, <1>call, <2>1, MoveLemma DEF ExpireFind
  <2> QED  BY <1>0, <1>18, <2>1, <2>2, OutsideLemma DEF ExpireFind, Frame, Holding
<1>19. CASE ExpireMiss(t)
  BY <1>5, <1>19, <1>val DEF ExpireMiss, At
<1>20. CASE ExpireRead(t)
  BY <1>6, <1>20 DEF ExpireRead, At
<1>21. CASE ReadCrashes(t)
  <2>1. /\ call[t].at \in {"expire", "getRead", "expireRead"}
        /\ UNCHANGED <<cacheLock, respList, entry, map, life>>
    BY <1>21 DEF ReadCrashes, At
  <2>2. call[t].val = NULL /\ call[t].url \in Urls
    BY <1>val, <2>1 DEF IInv, CallsAgree, At
  <2>3. /\ call'[t].at = "crashed" /\ call'[t].val = call[t].val /\ call'[t].url = call[t].url
        /\ \A s \in Threads : s # t => call'[s] = call[s]
    BY <1>21, <1>call, CrashLemma DEF ReadCrashes, CallRecord
  <2> QED  BY <1>0, <2>1, <2>2, <2>3, OutsideLemma DEF Holding
<1> QED
  BY <1>2, <1>3, <1>4, <1>7, <1>8, <1>9, <1>10, <1>11, <1>12, <1>13, <1>14,
     <1>15, <1>16, <1>17, <1>18, <1>19, <1>20, <1>21 DEF Calls, Step

(* The inductive invariant of Cache, from which the theorems below follow.  *)
THEOREM Invariance == Spec => []IInv
<1>1. IInv /\ [Next]_vars => IInv'
  BY StepInv
<1> QED  BY <1>1, InitInv, PTL DEF Spec

(* Every variable of the cache keeps its type.                              *)
THEOREM TypeCorrect == Spec => []TypeOK
<1>1. IInv => TypeOK
  BY DEF IInv
<1> QED  BY <1>1, Invariance, PTL

(* cache.hpp's map never leads checkExpire, which reads it without the mutex, *)
(* to an entry of another url or one that is not in the list, not between any *)
(* two writes of a put; and the list is never ahead of the map by more than   *)
(* the entry that this put is about to drop or to enter.                      *)
THEOREM MapAndListAgree == Spec => []ListMapAgree
<1>1. IInv => ListMapAgree
  BY DEF IInv
<1> QED  BY <1>1, Invariance, PTL

(* put's test respList.size() == capacity is enough: the list stays within   *)
(* the capacity, however many threads put at once.                          *)
THEOREM CapacityBound == Spec => []CapacityRespected
<1>1. IInv => CapacityRespected
  BY DEF IInv
<1> QED  BY <1>1, Invariance, PTL

(* Every path of get and put gives the mutex back, and it excludes puts.    *)
THEOREM MutualExclusion == Spec => []LockDiscipline
<1>1. IInv => LockDiscipline
  BY DEF IInv
<1> QED  BY <1>1, Invariance, PTL

(* What the cache holds is alive: put deletes a response only as it replaces *)
(* the one entry that points to it.                                         *)
THEOREM CachedIsAlive == Spec => []EntriesLive
<1>1. IInv => EntriesLive
  BY DEF IInv
<1> QED  BY <1>1, Invariance, PTL

(* put never deletes a response twice: each has one owner at any time.      *)
THEOREM SingleOwner == Spec => []OneOwner
<1>1. IInv => OneOwner
  BY DEF IInv
<1> QED  BY <1>1, Invariance, PTL

(* delete is applied once to a response, whatever the interleaving of puts. *)
THEOREM NoDoubleDelete == Spec => DeletedOnce
<1>1. ASSUME IInv, NEW t \in Threads, PutFound(t)
      PROVE  life[entry[map[call[t].url]].resp] = "given"
  <2>1. \A s \in Threads : ~At(s, "putUpdate")
    BY <1>1, NullAssumption DEF IInv, LockDiscipline, PutFound, LockFree, At, Holding
  <2>2. map[call[t].url] \in Range(respList)
    BY <1>1 DEF IInv, ListMapAgree, CallsAgree, PutFound, At
  <2> QED  BY <1>1, <2>1, <2>2 DEF IInv, EntriesLive
<1>2. IInv => \A t \in Threads :
                PutFound(t) => life[entry[map[call[t].url]].resp] = "given"
  BY <1>1
<1> QED  BY <1>2, Invariance, PTL DEF DeletedOnce

=============================================================================
