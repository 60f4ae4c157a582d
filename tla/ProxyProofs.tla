---------------------------- MODULE ProxyProofs ----------------------------
(***************************************************************************)
(* The threads of the proxy use the cache as module Cache says: every      *)
(* behaviour of ProxySpec is one of Spec.  So the theorems of CacheProofs  *)
(* hold of the running proxy.  Seven follow of its own: a client gets one  *)
(* answer or the beginning of one, and silence only when something failed; *)
(* only 200s whose client got all of them are cached; a 304 confirms the   *)
(* current version; what is served unasked is what was judged fresh; what  *)
(* a get holds answers the request as long as gets read their own entries; *)
(* and the types.                                                          *)
(***************************************************************************)
EXTENDS Proxy, CacheProofs

(* A thread that serves a request knows which, and its locals have their    *)
(* fields.                                                                  *)
Fields == {"pc", "req", "held", "judged", "ask", "wire"}

Known(r) ==
    /\ DOMAIN r = Fields
    /\ r = [f \in DOMAIN r |-> r[f]]
    /\ r.pc \notin {"accepted", "done"} => r.req \in Requests

RequestKnown ==
    /\ DOMAIN thread = Threads
    /\ thread = [p \in DOMAIN thread |-> thread[p]]
    /\ \A p \in Threads : Known(thread[p])

(* One thread's locals change, and it still knows its request.              *)
LEMMA OneThread ==
    ASSUME RequestKnown, NEW p \in Threads, NEW r, Known(r),
           thread' = [thread EXCEPT ![p] = r]
    PROVE  RequestKnown'
BY DEF RequestKnown

(* The ways in which an action changes its thread's locals.  It ends:        *)
LEMMA ExitKnown ==
    ASSUME RequestKnown, NEW p \in Threads, Exit(p)
    PROVE  RequestKnown'
<1> DEFINE r == [thread[p] EXCEPT !.pc = "done", !.held = NULL, !.judged = NULL,
                                  !.ask = NULL, !.wire = NULL]
<1>1. Known(r)
  BY DEF RequestKnown, Known, Fields
<1>2. thread' = [thread EXCEPT ![p] = r]
  BY DEF Exit, RequestKnown, Known, Fields
<1> HIDE DEF r
<1> QED  BY <1>1, <1>2, OneThread

(* It moves on;                                                              *)
LEMMA GotoKnown ==
    ASSUME RequestKnown, NEW p \in Threads, NEW place, Goto(p, place),
           ~In(p, {"accepted", "done"})
    PROVE  RequestKnown'
<1> DEFINE r == [thread[p] EXCEPT !.pc = place]
<1>1. Known(r)
  BY DEF RequestKnown, Known, Fields, In
<1>2. thread' = [thread EXCEPT ![p] = r]
  BY DEF Goto, RequestKnown, Known, Fields
<1> HIDE DEF r
<1> QED  BY <1>1, <1>2, OneThread

(* It moves on and assigns one local;                                        *)
LEMMA AssignKnown ==
    ASSUME RequestKnown, NEW p \in Threads, NEW place, NEW x,
           ~In(p, {"accepted", "done"}),
           \/ thread' = [thread EXCEPT ![p].pc = place, ![p].held = x]
           \/ thread' = [thread EXCEPT ![p].pc = place, ![p].judged = x]
           \/ thread' = [thread EXCEPT ![p].pc = place, ![p].ask = x]
    PROVE  RequestKnown'
<1>1. CASE thread' = [thread EXCEPT ![p].pc = place, ![p].held = x]
  <2> DEFINE r == [thread[p] EXCEPT !.pc = place, !.held = x]
  <2>1. Known(r)
    BY DEF RequestKnown, Known, Fields, In
  <2>2. thread' = [thread EXCEPT ![p] = r]
    BY <1>1 DEF RequestKnown, Known, Fields
  <2> HIDE DEF r
  <2> QED  BY <2>1, <2>2, OneThread
<1>2. CASE thread' = [thread EXCEPT ![p].pc = place, ![p].judged = x]
  <2> DEFINE r == [thread[p] EXCEPT !.pc = place, !.judged = x]
  <2>1. Known(r)
    BY DEF RequestKnown, Known, Fields, In
  <2>2. thread' = [thread EXCEPT ![p] = r]
    BY <1>2 DEF RequestKnown, Known, Fields
  <2> HIDE DEF r
  <2> QED  BY <2>1, <2>2, OneThread
<1>3. CASE thread' = [thread EXCEPT ![p].pc = place, ![p].ask = x]
  <2> DEFINE r == [thread[p] EXCEPT !.pc = place, !.ask = x]
  <2>1. Known(r)
    BY DEF RequestKnown, Known, Fields, In
  <2>2. thread' = [thread EXCEPT ![p] = r]
    BY <1>3 DEF RequestKnown, Known, Fields
  <2> HIDE DEF r
  <2> QED  BY <2>1, <2>2, OneThread
<1> QED  BY <1>1, <1>2, <1>3

(* An answer arrives for it;                                                 *)
LEMMA WireKnown ==
    ASSUME RequestKnown, NEW p \in Threads, NEW x,
           thread' = [thread EXCEPT ![p].wire = x]
    PROVE  RequestKnown'
<1> DEFINE r == [thread[p] EXCEPT !.wire = x]
<1>1. Known(r)
  BY DEF RequestKnown, Known, Fields
<1>2. thread' = [thread EXCEPT ![p] = r]
  BY DEF RequestKnown, Known, Fields
<1> HIDE DEF r
<1> QED  BY <1>1, <1>2, OneThread

(* It takes a request.                                                       *)
LEMMA BeginKnown ==
    ASSUME RequestKnown, NEW p \in Threads, NEW q \in Requests, NEW place,
           Begin(p, q, place)
    PROVE  RequestKnown'
<1> DEFINE r == [thread[p] EXCEPT !.pc = place, !.req = q]
<1>1. Known(r)
  BY DEF RequestKnown, Known, Fields
<1>2. thread' = [thread EXCEPT ![p] = r]
  BY DEF Begin, RequestKnown, Known, Fields
<1> HIDE DEF r
<1> QED  BY <1>1, <1>2, OneThread

(* Nobody has a request yet.                                                 *)
LEMMA InitKnown == ProxyInit => RequestKnown
BY DEF ProxyInit, RequestKnown, Known, Fields

-----------------------------------------------------------------------------
(* What happens after the fetch: the response is dropped, lost, or put.     *)
LEMMA KeepStep ==
    ASSUME RequestKnown, ~Crashed, NEW p \in Threads, Keep(p),
           ~In(p, {"accepted", "done"})
    PROVE  RequestKnown' /\ [Next]_vars
<1>1. CASE Exit(p) /\ UNCHANGED vars
  BY <1>1, ExitKnown
<1>2. CASE Goto(p, "store") /\ PutCall(p, Key(thread[p].req), p)
  <2>1. Key(thread[p].req) \in Urls /\ p \in Responses
    BY OwnResponse DEF RequestKnown, Known, In, Key, Requests
  <2>2. Next
    BY <1>2, <2>1 DEF Next, Running, Calls
  <2> QED  BY <1>2, <2>2, GotoKnown
<1> QED  BY <1>1, <1>2 DEF Keep

(* A step that one thread takes on its own.                                 *)
LEMMA RunStep ==
    ASSUME RequestKnown, ~Crashed, NEW p \in Threads, Run(p)
    PROVE  RequestKnown' /\ [Next]_vars
<1>1. CASE InCache(p)
  <2>1. Next
    BY <1>1 DEF InCache, Next, Running
  <2>2. RequestKnown'
    BY <1>1 DEF InCache, own, RequestKnown, Known
  <2> QED  BY <2>1, <2>2
<1>2. CASE LookupMissed(p) \/ MustValidate(p)
  BY <1>2, GotoKnown DEF LookupMissed, MustValidate, In
<1>3. CASE LookupFound(p)
  <2>1. Key(thread[p].req) \in Urls
    BY <1>3 DEF LookupFound, RequestKnown, Known, In, Key, Requests
  <2>2. Next
    BY <1>3, <2>1 DEF LookupFound, Next, Running, Calls
  <2> QED  BY <1>3, <2>2, AssignKnown DEF LookupFound, In
<1>4. CASE Expired(p) \/ Fresh(p)
  BY <1>4, AssignKnown DEF Expired, Fresh, In
<1>5. CASE Serve(p) \/ ConnectFails(p) \/ FetchPart(p) \/ FetchHeadless(p)
           \/ FetchFails(p) \/ ChunksCut(p) \/ ValidateNotModified(p)
           \/ ValidateOther(p) \/ ValidateFails(p) \/ Stored(p) \/ Updated(p)
  <2>1. Exit(p) /\ UNCHANGED vars
    BY <1>5 DEF Serve, ConnectFails, FetchPart, FetchHeadless, FetchFails,
                ChunksCut, ValidateNotModified, ValidateOther, ValidateFails,
                Stored, Updated
  <2> QED  BY <2>1, ExitKnown
<1>6. CASE ConnectFetch(p)
  BY <1>6, AssignKnown DEF ConnectFetch, In
<1>7. CASE ConnectValidate(p)
  <2>1. PICK o : thread' = [thread EXCEPT ![p].pc = "validate",
                                          ![p].ask = Validator(thread[p].req.cond, o)]
    BY <1>7 DEF ConnectValidate
  <2>2. UNCHANGED vars /\ ~In(p, {"accepted", "done"})
    BY <1>7 DEF ConnectValidate, In
  <2>3. RequestKnown'
    BY <2>1, <2>2, AssignKnown
  <2> QED  BY <2>2, <2>3
<1>8. CASE ConnectTunnel(p) \/ FetchChunked(p)
  BY <1>8, GotoKnown DEF ConnectTunnel, FetchChunked, In
<1>9. CASE FetchWhole(p) \/ ChunksEnd(p)
  BY <1>9, KeepStep DEF FetchWhole, ChunksEnd, In
<1>10. CASE ValidateOK(p)
  <2>1. Key(thread[p].req) \in Urls /\ p \in Responses
    BY <1>10, OwnResponse DEF ValidateOK, RequestKnown, Known, In, Key, Requests
  <2>2. Next
    BY <1>10, <2>1 DEF ValidateOK, Next, Running, Calls
  <2> QED  BY <1>10, <2>2, GotoKnown DEF ValidateOK, In
<1> QED  BY <1>1, <1>2, <1>3, <1>4, <1>5, <1>6, <1>7, <1>8, <1>9, <1>10 DEF Run

(* A request arrives, or fails to.                                           *)
LEMMA ArriveStep ==
    ASSUME RequestKnown, ~Crashed, NEW p \in Threads, Arrive(p)
    PROVE  RequestKnown' /\ [Next]_vars
<1>1. CASE AcceptMalformed(p) \/ AcceptFails(p)
  BY <1>1, ExitKnown DEF AcceptMalformed, AcceptFails
<1>2. ASSUME NEW q \in Requests, Accept(p, q)
      PROVE  RequestKnown' /\ [Next]_vars
  <2>1. RequestKnown'
    BY <1>2, BeginKnown DEF Accept
  <2>2. Key(q) \in Urls
    BY DEF Key, Requests
  <2>3. [Next]_vars
    BY <1>2, <2>2 DEF Accept, Next, Running, Calls
  <2> QED  BY <2>1, <2>3
<1> QED  BY <1>1, <1>2 DEF Arrive

(* Every step of the proxy is a step of the cache or leaves it alone.        *)
LEMMA ProxyStep ==
    RequestKnown /\ [ProxyNext]_proxyVars => RequestKnown' /\ [Next]_vars
<1> SUFFICES ASSUME RequestKnown, [ProxyNext]_proxyVars
             PROVE  RequestKnown' /\ [Next]_vars
  OBVIOUS
<1>1. ASSUME NEW p \in Threads, OriginAnswers(p)
      PROVE  RequestKnown' /\ [Next]_vars
  BY <1>1, WireKnown DEF OriginAnswers, Answer
<1>2. ASSUME NEW p \in Threads, TunnelClosed(p)
      PROVE  RequestKnown' /\ [Next]_vars
  BY <1>2, ExitKnown DEF TunnelClosed
<1>3. ASSUME NEW u \in Urls, Change(u)
      PROVE  RequestKnown' /\ [Next]_vars
  BY <1>3 DEF Change, own, RequestKnown, Known
<1>4. CASE UNCHANGED proxyVars
  BY <1>4 DEF proxyVars, own, RequestKnown, Known
<1> QED
  BY <1>1, <1>2, <1>3, <1>4, RunStep, ArriveStep DEF ProxyNext, AllDone

-----------------------------------------------------------------------------
(* The threads of proxy.cpp call get, put and checkExpire as module Cache   *)
(* lets them, whatever clients and origins do.                              *)
THEOREM ProxyUsesCache == ProxySpec => Spec
<1>1. ProxyInit => Init
  BY DEF ProxyInit
<1> QED  BY <1>1, InitKnown, ProxyStep, PTL DEF ProxySpec, Spec

(* In the running proxy, no response in the cache has been deleted, apart   *)
(* from the one that the put holding the mutex is replacing.                *)
THEOREM ProxyCacheIsAlive == ProxySpec => []EntriesLive
BY ProxyUsesCache, CachedIsAlive, PTL

(* In the running proxy, no response is deleted twice.                      *)
THEOREM ProxyNoDoubleDelete == ProxySpec => DeletedOnce
BY ProxyUsesCache, NoDoubleDelete, PTL
-----------------------------------------------------------------------------
(* Only 200s are cached, under their url.                                    *)

(* A response belongs to the thread that allocated it until that thread has *)
(* handed it to put, after which the thread does not touch it any more.     *)
HandedOver ==
    \A p \in Threads : life[p] # "new" => In(p, {"store", "update", "done"})

(* What is under way to the cache may be there: put is called with a 200.   *)
PutIsOK ==
    \A t \in Threads : call[t].val # NULL =>
        object[call[t].val].status = "ok" /\ object[call[t].val].url = call[t].url

ListIsOK ==
    \A e \in Range(respList) :
        object[entry[e].resp].status = "ok" /\ object[entry[e].resp].url = entry[e].url

OKInv ==
    /\ DOMAIN object = Threads
    /\ object = [p \in DOMAIN object |-> object[p]]
    /\ HandedOver
    /\ PutIsOK
    /\ ListIsOK

(* The elements of a sequence with one put in front of it.                   *)
LEMMA ConsRange ==
    ASSUME NEW S, NEW s \in Seq(S), NEW e \in S
    PROVE  Range(Cons(e, s)) = Range(s) \cup {e}
BY ConsLemma

(* What a step inside the cache does to the entries in the list, and to the *)
(* calls and lives: an entry is as it was or gets what a put brings.         *)
LEMMA StepEffect ==
    ASSUME IInv, IInv', NEW t \in Threads, Step(t)
    PROVE  /\ \A e \in Range(respList') :
                 \/ e \in Range(respList) /\ entry'[e] = entry[e]
                 \/ /\ call[t].val # NULL
                    /\ entry'[e].resp = call[t].val /\ entry'[e].url = call[t].url
           /\ \A s \in Threads : call'[s].val # NULL =>
                 call'[s].val = call[s].val /\ call'[s].url = call[s].url
           /\ \A r \in Responses : life'[r] # "new" => life[r] # "new"
<1>call. call \in [Threads -> CallRecord]
  BY DEF IInv, TypeOK
<1>1. ASSUME NEW v, Return(t, v)
      PROVE  \A s \in Threads : call'[s].val # NULL =>
                 call'[s].val = call[s].val /\ call'[s].url = call[s].url
  BY <1>1, <1>call DEF Return, Idle, Frame
<1>2. ASSUME NEW place, NEW e, NEW v, Move(t, place, e, v)
      PROVE  \A s \in Threads : call'[s].val # NULL =>
                 call'[s].val = call[s].val /\ call'[s].url = call[s].url
  BY <1>2, <1>call DEF Move, Frame
<1>3. ASSUME NEW i \in DOMAIN respList, respList' = MoveToFront(respList, i)
      PROVE  Range(respList') = Range(respList)
  BY <1>3, MoveToFrontLemma DEF IInv, TypeOK
<1>crash. Crash(t) => \A s \in Threads : call'[s].val # NULL =>
                          call'[s].val = call[s].val /\ call'[s].url = call[s].url
  BY <1>call DEF Crash, CallRecord
<1>4. CASE \/ GetMiss(t) \/ GetRead(t) \/ ExpireFind(t) \/ ExpireMiss(t) \/ ExpireRead(t)
           \/ ReadCrashes(t)
  BY <1>1, <1>2, <1>crash, <1>4 DEF GetMiss, GetRead, ReadEntry, ExpireFind, ExpireMiss,
                                   ExpireRead, ReadCrashes
<1>5. CASE GetHit(t)
  BY <1>2, <1>3, <1>5 DEF GetHit
<1>6. CASE PutFound(t)
  <2>1. map[call[t].url] \in Range(respList)
    BY <1>6 DEF PutFound, At, IInv, CallsAgree, ListMapAgree
  <2>2. life[entry[map[call[t].url]].resp] # "new"
    BY <2>1 DEF IInv, EntriesGiven
  <2> QED  BY <1>2, <1>6, <2>2 DEF PutFound, IInv, TypeOK
<1>7. CASE PutMiss(t) \/ PutEvict(t) \/ PutKey(t) \/ PutLink(t)
  BY <1>1, <1>2, <1>7 DEF PutMiss, PutEvict, PutKey, PutLink
<1>8. CASE PutPop(t)
  <2>1. Full /\ respList \in Seq(Entries) /\ Len(respList) # 0
    BY <1>8, CapacityAssumption DEF PutPop, At, Full, IInv, TypeOK, CallsAgree
  <2>2. Range(Front(respList)) \subseteq Range(respList)
    BY <2>1 DEF Front, Range
  <2> QED  BY <1>2, <1>8, <2>2 DEF PutPop
<1>9. CASE PutUpdate(t)
  <2>1. /\ call[t].it \in Entries /\ call[t].val # NULL
        /\ map[call[t].url] = call[t].it /\ call[t].url \in Urls
        /\ call[t].it # NULL
    BY <1>9, NullAssumption DEF PutUpdate, At, IInv, CallsAgree, Holding
  <2>2. entry[call[t].it].url = call[t].url
    BY <2>1 DEF IInv, ListMapAgree
  <2>3. Range(respList') = Range(respList) /\ Range(respList) \subseteq Entries
    BY <1>3, <1>9, RangeLemma DEF PutUpdate, IInv, TypeOK
  <2>4. \A e \in Entries : IF e = call[t].it
                           THEN entry'[e].resp = call[t].val /\ entry'[e].url = call[t].url
                           ELSE entry'[e] = entry[e]
    BY <1>9, <2>1, <2>2 DEF PutUpdate, Store, IInv, TypeOK
  <2> QED  BY <1>1, <1>9, <2>1, <2>3, <2>4 DEF PutUpdate
<1>10. CASE PutInsert(t)
  <2>1. call[t].val # NULL
    BY <1>10 DEF PutInsert, At, IInv, CallsAgree, Holding
  <2>2. PICK e \in Entries \ Range(respList) :
            /\ entry' = [entry EXCEPT ![e] = [url |-> call[t].url, resp |-> call[t].val]]
            /\ respList' = Cons(e, respList)
    BY <1>10 DEF PutInsert
  <2>3. Range(respList') = Range(respList) \cup {e} /\ Range(respList) \subseteq Entries
    <3>1. respList \in Seq(Entries) /\ e \in Entries
      BY <2>2 DEF IInv, TypeOK
    <3>2. Range(respList) \subseteq Entries
      BY <3>1, RangeLemma
    <3>3. Range(Cons(e, respList)) = Range(respList) \cup {e}
      BY <3>1, ConsRange
    <3> QED  BY <2>2, <3>2, <3>3
  <2>4. /\ entry'[e].resp = call[t].val /\ entry'[e].url = call[t].url
        /\ \A f \in Range(respList) : entry'[f] = entry[f]
    BY <2>2, <2>3 DEF IInv, TypeOK
  <2> QED  BY <1>2, <1>10, <2>1, <2>3, <2>4 DEF PutInsert
<1> QED
  BY <1>4, <1>5, <1>6, <1>7, <1>8, <1>9, <1>10 DEF Step

(* Places at which a thread is done with its response.                       *)
End == {"store", "update", "done"}

Stays == \A q \in Threads : In(q, End) => In(q, End)'

(* A step that leaves the cache and the responses alone;                     *)
LEMMA QuietOK ==
    ASSUME OKInv, Stays, UNCHANGED <<vars, object>>
    PROVE  OKInv'
BY DEF OKInv, HandedOver, PutIsOK, ListIsOK, Stays, End, In, vars

(* one that fills in the response of a thread that has not handed it over;   *)
LEMMA OwnOK ==
    ASSUME IInv, OKInv, Stays, NEW p \in Threads, ~In(p, End), UNCHANGED vars,
           NEW o, object' = [object EXCEPT ![p] = o]
    PROVE  OKInv'
<1>1. life[p] = "new"
  BY DEF OKInv, HandedOver, End, In
<1>2. HandedOver'
  BY DEF OKInv, HandedOver, Stays, End, In, vars
<1>3. \A r \in Responses : life[r] # "new" => object'[r] = object[r]
  BY <1>1, OwnResponse DEF OKInv
<1>4. PutIsOK'
  <2>1. \A t \in Threads : call[t].val # NULL =>
            call[t].val \in Responses /\ life[call[t].val] # "new"
    BY DEF IInv, TypeOK, CallRecord, OneOwner
  <2> QED  BY <1>3, <2>1 DEF OKInv, PutIsOK, vars
<1>5. ListIsOK'
  BY <1>3 DEF OKInv, ListIsOK, IInv, EntriesGiven, vars
<1> QED  BY <1>2, <1>4, <1>5 DEF OKInv

(* one that calls get or checkExpire;                                        *)
LEMMA LookOK ==
    ASSUME IInv, OKInv, Stays, NEW p \in Threads, NEW u,
           GetCall(p, u) \/ ExpireCall(p, u), UNCHANGED object
    PROVE  OKInv'
<1>1. \A t \in Threads : call'[t].val # NULL => call'[t] = call[t]
  BY DEF GetCall, ExpireCall, Call, Frame, IInv, TypeOK
<1> QED
  BY <1>1 DEF OKInv, HandedOver, PutIsOK, ListIsOK, Stays, End, In, GetCall, ExpireCall

(* one that calls put with a 200 for the url it asked for.                   *)
LEMMA PutOK ==
    ASSUME IInv, OKInv, Stays, NEW p \in Threads, ~In(p, End), In(p, End)',
           NEW o, object' = [object EXCEPT ![p] = o], o.status = "ok",
           PutCall(p, o.url, p)
    PROVE  OKInv'
<1>1. HandedOver'
  BY OwnResponse DEF OKInv, HandedOver, Stays, End, In, PutCall, IInv, TypeOK
<1>2. \A r \in Responses : life[r] # "new" => object'[r] = object[r]
  BY OwnResponse DEF OKInv, PutCall
<1>3. PutIsOK'
  <2>1. \A t \in Threads : call[t].val # NULL =>
            call[t].val \in Responses /\ life[call[t].val] # "new"
    BY DEF IInv, TypeOK, CallRecord, OneOwner
  <2>2. \A t \in Threads \ {p} : call'[t] = call[t]
    BY DEF PutCall, Call, IInv, TypeOK
  <2>3. call'[p].val = p /\ call'[p].url = o.url /\ object'[p] = o
    BY DEF PutCall, Call, Frame, IInv, TypeOK, OKInv
  <2> QED  BY <1>2, <2>1, <2>2, <2>3 DEF OKInv, PutIsOK
<1>4. ListIsOK'
  BY <1>2 DEF OKInv, ListIsOK, IInv, EntriesGiven, PutCall
<1> QED  BY <1>1, <1>3, <1>4 DEF OKInv

(* one inside the cache.                                                     *)
LEMMA InCacheOK ==
    ASSUME IInv, IInv', OKInv, NEW p \in Threads, InCache(p)
    PROVE  OKInv'
<1>1. Step(p) /\ UNCHANGED <<thread, object>>
  BY DEF InCache, own
<1>2. PutIsOK' /\ HandedOver'
  BY <1>1, StepEffect, OwnResponse DEF OKInv, PutIsOK, HandedOver, In
<1>3. ListIsOK'
  BY <1>1, StepEffect DEF OKInv, PutIsOK, ListIsOK
<1> QED  BY <1>1, <1>2, <1>3 DEF OKInv

(* How a thread's locals change.                                             *)
LEMMA MoveStays ==
    ASSUME RequestKnown, NEW p \in Threads, ~In(p, End),
           \A q \in Threads \ {p} : thread'[q] = thread[q]
    PROVE  Stays
BY DEF Stays, In

LEMMA ExitStays ==
    ASSUME RequestKnown, NEW p \in Threads, Exit(p)
    PROVE  Stays /\ In(p, {"done"})' /\ \A q \in Threads \ {p} : thread'[q] = thread[q]
BY DEF Exit, Stays, In, End, RequestKnown, Known, Fields

LEMMA GotoStays ==
    ASSUME RequestKnown, NEW p \in Threads, NEW place, Goto(p, place)
    PROVE  In(p, {place})' /\ \A q \in Threads \ {p} : thread'[q] = thread[q]
BY DEF Goto, In, RequestKnown, Known, Fields

(* A response that proxyGET keeps.                                           *)
LEMMA KeepOK ==
    ASSUME RequestKnown, IInv, OKInv, NEW p \in Threads, ~In(p, End), Keep(p)
    PROVE  OKInv'
<1>1. CASE Exit(p) /\ UNCHANGED <<vars, object>>
  BY <1>1, ExitStays, QuietOK
<1> DEFINE o == Parsed(p)
<1>2. CASE object' = [object EXCEPT ![p] = o] /\ Exit(p) /\ UNCHANGED vars
  <2> HIDE DEF o
  <2> QED  BY <1>2, ExitStays, OwnOK
<1>3. CASE /\ object' = [object EXCEPT ![p] = o] /\ Cacheable(o)
           /\ Goto(p, "store") /\ PutCall(p, Key(thread[p].req), p)
  <2>1. Stays /\ In(p, End)'
    BY <1>3, GotoStays, MoveStays DEF In, End
  <2>2. o.url = Key(thread[p].req) /\ o.status = "ok"
    BY <1>3 DEF Parsed, Key, Cacheable
  <2> HIDE DEF o
  <2> QED  BY <1>3, <2>1, <2>2, PutOK
<1> QED  BY <1>1, <1>2, <1>3 DEF Keep

LEMMA RunOK ==
    ASSUME RequestKnown, IInv, IInv', OKInv, NEW p \in Threads, Run(p)
    PROVE  OKInv'
<1>1. CASE InCache(p)
  BY <1>1, InCacheOK
<1>2. CASE LookupMissed(p) \/ MustValidate(p) \/ ConnectTunnel(p) \/ FetchChunked(p)
  BY <1>2, GotoStays, MoveStays, QuietOK
     DEF LookupMissed, MustValidate, ConnectTunnel, FetchChunked, In, End
<1>3. CASE Expired(p) \/ Fresh(p) \/ ConnectFetch(p) \/ ConnectValidate(p)
  <2>1. ~In(p, End) /\ \A q \in Threads \ {p} : thread'[q] = thread[q]
    BY <1>3 DEF Expired, Fresh, ConnectFetch, ConnectValidate, In, End, RequestKnown
  <2> QED  BY <1>3, <2>1, MoveStays, QuietOK DEF Expired, Fresh, ConnectFetch,
         ConnectValidate
<1>4. CASE LookupFound(p)
  <2>1. ~In(p, End) /\ \A q \in Threads \ {p} : thread'[q] = thread[q]
    BY <1>4 DEF LookupFound, In, End, RequestKnown
  <2> QED  BY <1>4, <2>1, MoveStays, LookOK DEF LookupFound
<1>5. CASE Serve(p) \/ ConnectFails(p) \/ FetchHeadless(p) \/ FetchFails(p)
           \/ Stored(p) \/ Updated(p)
  BY <1>5, ExitStays, QuietOK
     DEF Serve, ConnectFails, FetchHeadless, FetchFails, Stored, Updated
<1>6. CASE FetchPart(p) \/ ChunksCut(p) \/ ValidateNotModified(p) \/ ValidateOther(p)
  <2>1. ~In(p, End) /\ Exit(p) /\ UNCHANGED vars
    BY <1>6 DEF FetchPart, ChunksCut, ValidateNotModified, ValidateOther, In, End
  <2>2. object' = [object EXCEPT ![p] = Parsed(p)]
    BY <1>6 DEF FetchPart, ChunksCut, ValidateNotModified, ValidateOther
  <2> QED  BY <2>1, <2>2, ExitStays, OwnOK
<1>7. CASE FetchWhole(p) \/ ChunksEnd(p)
  BY <1>7, KeepOK DEF FetchWhole, ChunksEnd, In, End
<1>8. CASE ValidateFails(p)
  <2>1. ~In(p, End) /\ Exit(p) /\ UNCHANGED vars
    BY <1>8 DEF ValidateFails, In, End
  <2>2. UNCHANGED object \/ object' = [object EXCEPT ![p] = Parsed(p)]
    BY <1>8 DEF ValidateFails
  <2> QED  BY <2>1, <2>2, ExitStays, OwnOK, QuietOK
<1>9. CASE ValidateOK(p)
  <2> DEFINE o == Parsed(p)
  <2>1. Stays /\ ~In(p, End) /\ In(p, End)'
    BY <1>9, GotoStays, MoveStays DEF ValidateOK, In, End
  <2>2. o.url = Key(thread[p].req) /\ o.status = "ok"
    BY <1>9 DEF ValidateOK, Arrived, Parsed, Key
  <2>3. object' = [object EXCEPT ![p] = o] /\ PutCall(p, Key(thread[p].req), p)
    BY <1>9 DEF ValidateOK
  <2> HIDE DEF o
  <2> QED  BY <2>1, <2>2, <2>3, PutOK
<1> QED
  BY <1>1, <1>2, <1>3, <1>4, <1>5, <1>6, <1>7, <1>8, <1>9, Zenon DEF Run

LEMMA StepOK ==
    ASSUME RequestKnown, IInv, IInv', OKInv, [ProxyNext]_proxyVars
    PROVE  OKInv'
<1>1. ASSUME NEW p \in Threads, Arrive(p)
      PROVE  OKInv'
  <2>1. ~In(p, End) /\ \A q \in Threads \ {p} : thread'[q] = thread[q]
    BY <1>1 DEF Arrive, Accept, AcceptMalformed, AcceptFails, Begin, Exit, In, End,
                RequestKnown
  <2>2. Stays
    BY <2>1, MoveStays
  <2>3. CASE UNCHANGED <<vars, object>>
    BY <2>2, <2>3, QuietOK
  <2>4. ASSUME NEW q \in Requests, GetCall(p, Key(q)), UNCHANGED object
        PROVE  OKInv'
    BY <2>2, <2>4, LookOK
  <2> QED  BY <1>1, <2>3, <2>4 DEF Arrive, Accept, AcceptMalformed, AcceptFails
<1>2. ASSUME NEW p \in Threads, OriginAnswers(p) \/ TunnelClosed(p)
      PROVE  OKInv'
  <2>1. ~In(p, End) /\ UNCHANGED <<vars, object>>
    BY <1>2 DEF OriginAnswers, Answer, TunnelClosed, In, End
  <2>2. \A q \in Threads \ {p} : thread'[q] = thread[q]
    BY <1>2 DEF OriginAnswers, Answer, TunnelClosed, Exit, RequestKnown
  <2> QED  BY <2>1, <2>2, MoveStays, QuietOK
<1>3. CASE UNCHANGED <<vars, own>>
  BY <1>3, QuietOK DEF own, Stays, In
<1>4. CASE \E u \in Urls : Change(u)
  BY <1>3, <1>4 DEF Change
<1>5. CASE UNCHANGED proxyVars
  BY <1>3, <1>5 DEF proxyVars
<1>6. ASSUME NEW p \in Threads, Run(p)
      PROVE  OKInv'
  BY <1>6, RunOK
<1>7. CASE \E p \in Threads : Arrive(p) \/ Run(p) \/ OriginAnswers(p) \/ TunnelClosed(p)
  BY <1>1, <1>2, <1>6, <1>7, Zenon
<1> QED
  BY <1>4, <1>5, <1>7 DEF ProxyNext, AllDone

LEMMA OKAlways == ProxySpec => []OKInv
<1>1. ProxyInit => OKInv
  <2> SUFFICES ASSUME ProxyInit PROVE OKInv
    OBVIOUS
  <2>1. HandedOver /\ PutIsOK
    BY OwnResponse DEF ProxyInit, Init, Idle, Frame, HandedOver, PutIsOK
  <2>2. ListIsOK
    BY DEF ProxyInit, Init, ListIsOK, Range
  <2> QED  BY <2>1, <2>2 DEF ProxyInit, OKInv
<1>2. RequestKnown /\ IInv /\ IInv' /\ OKInv /\ [ProxyNext]_proxyVars => OKInv'
  BY StepOK
<1>3. ProxySpec => []RequestKnown
  BY InitKnown, ProxyStep, PTL DEF ProxySpec
<1>4. ProxySpec => []IInv
  BY ProxyUsesCache, Invariance, PTL
<1> QED  BY <1>1, <1>2, <1>3, <1>4, PTL DEF ProxySpec

-----------------------------------------------------------------------------
(* What a client gets: OneAnswer.                                            *)

(* Places at which nothing has been sent to the client.                      *)
Silent == {"accepted", "lookup", "judge", "fresh", "revalidate", "connect",
           "fetch", "validate", "update"}

(* One answer, or the beginning of one and then nothing.                     *)
Ends(msgs) ==
    \/ msgs = << >>
    \/ Whole(msgs)
    \/ Kinds(msgs) \in {<<"part">>, <<"head">>, <<"head", "head">>}

(* What a thread has sent goes with where it is.                             *)
Answered(r, msgs) ==
    /\ r.pc \in Silent \cup {"chunks", "tunnel", "store", "done"}
    /\ r.pc = "accepted" => r.req = NULL
    /\ r.pc \in Silent => msgs = << >>
    /\ r.pc = "chunks" => msgs = << [kind |-> "head", ver |-> r.wire.ver] >>
    /\ r.pc \in {"tunnel", "store"} => Whole(msgs)
    /\ r.pc = "done" => Ends(msgs)

AnswerInv ==
    /\ DOMAIN reply = Threads
    /\ reply = [p \in DOMAIN reply |-> reply[p]]
    /\ \A p \in Threads : Answered(thread[p], reply[p])

(* One message of a whole answer is one, and so are a head and its rest; a   *)
(* part or a head sent twice is the beginning of one.                        *)
LEMMA OneMessage ==
    ASSUME NEW k, NEW v
    PROVE  /\ k \notin {"part", "head", "rest"} => Whole(Append(<< >>, [kind |-> k, ver |-> v]))
           /\ k = "part" => Ends(Append(<< >>, [kind |-> k, ver |-> v]))
BY DEF Whole, Ends, Kinds

LEMMA TwoMessages ==
    ASSUME NEW v
    PROVE  /\ Whole(Append(<< [kind |-> "head", ver |-> v] >>, [kind |-> "rest", ver |-> v]))
           /\ Ends(Append(<< [kind |-> "head", ver |-> v] >>, [kind |-> "head", ver |-> v]))
           /\ Ends(<< [kind |-> "head", ver |-> v] >>)
BY DEF Whole, Ends, Kinds

(* A step of one thread.                                                     *)
LEMMA AnswerMove ==
    ASSUME RequestKnown, AnswerInv, NEW p \in Threads,
           \A q \in Threads \ {p} : thread'[q] = thread[q],
           NEW m, reply' = [reply EXCEPT ![p] = m], Answered(thread'[p], m)
    PROVE  AnswerInv'
BY DEF AnswerInv

LEMMA AnswerQuiet ==
    ASSUME RequestKnown, AnswerInv, NEW p \in Threads,
           \A q \in Threads \ {p} : thread'[q] = thread[q],
           UNCHANGED reply, Answered(thread'[p], reply[p])
    PROVE  AnswerInv'
BY DEF AnswerInv

(* A thread's locals after Exit and Goto.                                    *)
LEMMA ExitLocals ==
    ASSUME RequestKnown, NEW p \in Threads, Exit(p)
    PROVE  /\ thread'[p].pc = "done" /\ thread'[p].wire = NULL
           /\ thread'[p].req = thread[p].req
           /\ \A q \in Threads \ {p} : thread'[q] = thread[q]
BY DEF Exit, RequestKnown, Known, Fields

LEMMA GotoLocals ==
    ASSUME RequestKnown, NEW p \in Threads, NEW place, Goto(p, place)
    PROVE  /\ thread'[p].pc = place /\ thread'[p].wire = thread[p].wire
           /\ thread'[p].req = thread[p].req
           /\ \A q \in Threads \ {p} : thread'[q] = thread[q]
BY DEF Goto, RequestKnown, Known, Fields

(* A thread that has sent nothing sends its one answer and ends,             *)
LEMMA SendAndExit ==
    ASSUME RequestKnown, AnswerInv, NEW p \in Threads, In(p, Silent),
           NEW k, k \notin {"head", "rest"}, NEW v, Send(p, k, v), Exit(p)
    PROVE  AnswerInv'
<1> DEFINE m == Append(reply[p], [kind |-> k, ver |-> v])
<1>1. Ends(m)
  <2>1. reply[p] = << >>
    BY DEF AnswerInv, Answered, In
  <2>2. m = Append(<< >>, [kind |-> k, ver |-> v])
    BY <2>1
  <2> HIDE DEF m
  <2>3. k \in {"part", "head", "rest"} => k = "part"
    OBVIOUS
  <2> QED  BY <2>2, <2>3, OneMessage DEF Ends
<1>2. reply' = [reply EXCEPT ![p] = m]
  BY DEF Send
<1> HIDE DEF m
<1>3. Answered(thread'[p], m)
  BY <1>1, ExitLocals DEF Answered, Silent
<1> QED  BY <1>2, <1>3, ExitLocals, AnswerMove

(* or sends it and goes on to where no more is sent.                         *)
LEMMA SendAndGo ==
    ASSUME RequestKnown, AnswerInv, NEW p \in Threads, In(p, Silent),
           NEW k, k \notin {"part", "head", "rest"}, NEW v, Send(p, k, v),
           NEW place \in {"tunnel", "store"}, Goto(p, place)
    PROVE  AnswerInv'
<1> DEFINE m == Append(reply[p], [kind |-> k, ver |-> v])
<1>1. Whole(m)
  BY OneMessage DEF AnswerInv, Answered, In
<1>2. reply' = [reply EXCEPT ![p] = m]
  BY DEF Send
<1> HIDE DEF m
<1>3. Answered(thread'[p], m)
  BY <1>1, GotoLocals DEF Answered, Silent, AnswerInv
<1> QED  BY <1>2, <1>3, GotoLocals, AnswerMove

LEMMA GoSilently ==
    ASSUME RequestKnown, AnswerInv, NEW p \in Threads, In(p, Silent),
           UNCHANGED reply, \A q \in Threads \ {p} : thread'[q] = thread[q],
           thread'[p].pc \in Silent \ {"accepted"}
    PROVE  AnswerInv'
<1>1. Answered(thread'[p], reply[p])
  BY DEF AnswerInv, Answered, In, Silent
<1> QED  BY <1>1, AnswerQuiet

(* It ends without another message.                                          *)
LEMMA ExitQuietly ==
    ASSUME RequestKnown, AnswerInv, NEW p \in Threads, Exit(p), UNCHANGED reply,
           Ends(reply[p])
    PROVE  AnswerInv'
<1>1. Answered(thread'[p], reply[p])
  BY ExitLocals DEF Answered, Silent
<1> QED  BY <1>1, ExitLocals, AnswerQuiet

LEMMA RunAnswers ==
    ASSUME RequestKnown, AnswerInv, NEW p \in Threads, Run(p)
    PROVE  AnswerInv'
<1>1. CASE InCache(p)
  BY <1>1 DEF InCache, own, AnswerInv
<1>2. CASE LookupMissed(p) \/ MustValidate(p) \/ ValidateOK(p)
  <2>1. In(p, Silent) /\ UNCHANGED reply
    BY <1>2 DEF LookupMissed, MustValidate, ValidateOK, In, Silent
  <2>2. \E place \in Silent \ {"accepted"} : Goto(p, place)
    BY <1>2 DEF LookupMissed, MustValidate, ValidateOK, Silent
  <2> QED  BY <2>1, <2>2, GotoLocals, GoSilently
<1>3. CASE LookupFound(p) \/ Expired(p) \/ Fresh(p) \/ ConnectFetch(p) \/ ConnectValidate(p)
  <2>1. In(p, Silent) /\ UNCHANGED reply
    BY <1>3 DEF LookupFound, Expired, Fresh, ConnectFetch, ConnectValidate, In, Silent
  <2>2. /\ thread'[p].pc \in Silent \ {"accepted"}
        /\ \A q \in Threads \ {p} : thread'[q] = thread[q]
    BY <1>3 DEF LookupFound, Expired, Fresh, ConnectFetch, ConnectValidate, Silent,
                RequestKnown, Known, Fields
  <2> QED  BY <2>1, <2>2, GoSilently
<1>4. CASE Serve(p) \/ ConnectFails(p) \/ FetchPart(p) \/ FetchHeadless(p)
           \/ ValidateNotModified(p) \/ ValidateOther(p) \/ Updated(p)
  <2>1. In(p, Silent) /\ Exit(p)
    BY <1>4 DEF Serve, ConnectFails, FetchPart, FetchHeadless, ValidateNotModified,
                ValidateOther, Updated, In, Silent
  <2>2. \E k \in {"cached", "error", "forwarded", "confirmed", "part"} : \E v : Send(p, k, v)
    BY <1>4 DEF Serve, ConnectFails, FetchPart, FetchHeadless, ValidateNotModified,
                ValidateOther, Updated, SendError
  <2> QED  BY <2>1, <2>2, SendAndExit
<1>5. CASE ConnectTunnel(p)
  BY <1>5, SendAndGo DEF ConnectTunnel, In, Silent
<1>6. CASE FetchWhole(p)
  <2>1. In(p, Silent) /\ Send(p, "forwarded", thread[p].wire.ver) /\ Keep(p)
    BY <1>6 DEF FetchWhole, In, Silent
  <2>2. Exit(p) \/ Goto(p, "store")
    BY <2>1 DEF Keep
  <2> QED  BY <2>1, <2>2, SendAndExit, SendAndGo
<1>7. CASE FetchChunked(p)
  <2> DEFINE v == thread[p].wire.ver
             head == [kind |-> "head", ver |-> v]
  <2>1. In(p, Silent) /\ Send(p, "head", v) /\ Goto(p, "chunks")
    BY <1>7 DEF FetchChunked, In, Silent
  <2>2. reply[p] = << >> /\ reply' = [reply EXCEPT ![p] = Append(@, head)]
    BY <2>1 DEF Send, AnswerInv, Answered, In
  <2>3. Append(<< >>, head) = << head >>
    OBVIOUS
  <2>4. reply' = [reply EXCEPT ![p] = << head >>]
    BY <2>2, <2>3
  <2>5. /\ thread'[p].pc = "chunks" /\ thread'[p].wire = thread[p].wire
        /\ \A q \in Threads \ {p} : thread'[q] = thread[q]
    BY <2>1, GotoLocals
  <2>6. Answered(thread'[p], << head >>)
    BY <2>5 DEF Answered, Silent
  <2> HIDE DEF head
  <2> QED  BY <2>4, <2>5, <2>6, AnswerMove
<1>8. CASE ChunksEnd(p) \/ ChunksCut(p)
  <2> DEFINE v == thread[p].wire.ver
             head == << [kind |-> "head", ver |-> v] >>
             m == Append(reply[p], [kind |-> "rest", ver |-> v])
             n == Append(reply[p], [kind |-> "head", ver |-> v])
  <2>1. reply[p] = head
    BY <1>8 DEF ChunksEnd, ChunksCut, AnswerInv, Answered, In
  <2>2. Whole(m) /\ Ends(n)
    BY <2>1, TwoMessages
  <2>3. CASE ChunksEnd(p)
    <3>1. reply' = [reply EXCEPT ![p] = m]
      BY <2>3 DEF ChunksEnd, Send
    <3>2. Exit(p) \/ Goto(p, "store")
      BY <2>3 DEF ChunksEnd, Keep
    <3> HIDE DEF m, n, head
    <3>3. Answered(thread'[p], m)
      BY <2>2, <3>2, ExitLocals, GotoLocals DEF Answered, Silent, Ends
    <3> QED  BY <3>1, <3>2, <3>3, ExitLocals, GotoLocals, AnswerMove
  <2>4. CASE ChunksCut(p)
    <3>1. reply' = [reply EXCEPT ![p] = n] /\ Exit(p)
      BY <2>4 DEF ChunksCut, Send
    <3> HIDE DEF m, n, head
    <3>2. Answered(thread'[p], n)
      BY <2>2, <3>1, ExitLocals DEF Answered, Silent
    <3> QED  BY <3>1, <3>2, ExitLocals, AnswerMove
  <2> QED  BY <1>8, <2>3, <2>4
<1>9. CASE FetchFails(p) \/ ValidateFails(p) \/ Stored(p)
  <2>1. Exit(p) /\ UNCHANGED reply
    BY <1>9 DEF FetchFails, ValidateFails, Stored
  <2>2. Ends(reply[p])
    BY <1>9 DEF FetchFails, ValidateFails, Stored, In, AnswerInv, Answered, Silent, Ends
  <2> QED  BY <2>1, <2>2, ExitQuietly
<1> QED
  BY <1>1, <1>2, <1>3, <1>4, <1>5, <1>6, <1>7, <1>8, <1>9, Zenon DEF Run

LEMMA ArriveAnswers ==
    ASSUME RequestKnown, AnswerInv, NEW p \in Threads, Arrive(p)
    PROVE  AnswerInv'
<1>1. CASE AcceptMalformed(p)
  BY <1>1, SendAndExit DEF AcceptMalformed, SendError, In, Silent
<1>2. CASE AcceptFails(p)
  <2>1. Ends(reply[p])
    BY <1>2 DEF AcceptFails, In, AnswerInv, Answered, Silent, Ends
  <2> QED  BY <1>2, <2>1, ExitQuietly DEF AcceptFails
<1>3. ASSUME NEW q \in Requests, Accept(p, q)
      PROVE  AnswerInv'
  <2>1. In(p, Silent) /\ \A t \in Threads \ {p} : thread'[t] = thread[t]
    BY <1>3 DEF Accept, Begin, In, Silent, RequestKnown
  <2>2. ASSUME UNCHANGED reply, NEW place \in {"lookup", "connect"}, Begin(p, q, place)
        PROVE  AnswerInv'
    <3>1. thread'[p].pc = place
      BY <2>2 DEF Begin, RequestKnown, Known, Fields
    <3> QED  BY <2>1, <2>2, <3>1, GoSilently DEF Silent
  <2>3. ASSUME SendError(p), Begin(p, q, "done")
        PROVE  AnswerInv'
    <3> DEFINE m == Append(reply[p], [kind |-> "error", ver |-> NULL])
    <3>1. Whole(m) /\ reply' = [reply EXCEPT ![p] = m]
      BY <2>1, <2>3, OneMessage DEF SendError, Send, AnswerInv, Answered, In
    <3> HIDE DEF m
    <3>2. thread'[p].pc = "done"
      BY <2>3 DEF Begin, RequestKnown, Known, Fields
    <3>3. Answered(thread'[p], m)
      BY <3>1, <3>2 DEF Answered, Silent, Ends
    <3> QED  BY <2>1, <3>1, <3>3, AnswerMove
  <2> QED  BY <1>3, <2>2, <2>3 DEF Accept
<1> QED  BY <1>1, <1>2, <1>3 DEF Arrive

LEMMA AnswerStep ==
    ASSUME RequestKnown, AnswerInv, [ProxyNext]_proxyVars
    PROVE  AnswerInv'
<1>1. ASSUME NEW p \in Threads, OriginAnswers(p) PROVE AnswerInv'
  <2> PICK kind \in Answers : Answer(p, kind)
    BY <1>1 DEF OriginAnswers
  <2>1. In(p, Silent \ {"accepted"}) /\ UNCHANGED reply /\ thread'[p].pc = thread[p].pc
        /\ \A q \in Threads \ {p} : thread'[q] = thread[q]
    BY DEF Answer, In, Silent, RequestKnown, Known, Fields
  <2> QED  BY <2>1, GoSilently DEF In
<1>2. ASSUME NEW p \in Threads, TunnelClosed(p) PROVE AnswerInv'
  <2>1. Ends(reply[p])
    BY <1>2 DEF TunnelClosed, In, AnswerInv, Answered, Ends
  <2> QED  BY <1>2, <2>1, ExitQuietly DEF TunnelClosed
<1>3. CASE UNCHANGED own
  BY <1>3 DEF own, AnswerInv
<1>4. ASSUME NEW p \in Threads, Arrive(p) \/ Run(p) \/ OriginAnswers(p) \/ TunnelClosed(p)
      PROVE  AnswerInv'
  BY <1>1, <1>2, <1>4, RunAnswers, ArriveAnswers
<1>5. (\E u \in Urls : Change(u)) \/ AllDone \/ UNCHANGED proxyVars => UNCHANGED own
  BY DEF Change, AllDone, proxyVars
<1> QED  BY <1>3, <1>4, <1>5, Zenon DEF ProxyNext

LEMMA AnswerAlways == ProxySpec => []AnswerInv
<1>1. ProxyInit => AnswerInv
  BY DEF ProxyInit, AnswerInv, Answered, Silent
<1>2. RequestKnown /\ AnswerInv /\ [ProxyNext]_proxyVars => AnswerInv'
  BY AnswerStep
<1>3. ProxySpec => []RequestKnown
  BY InitKnown, ProxyStep, PTL DEF ProxySpec
<1> QED  BY <1>1, <1>2, <1>3, PTL DEF ProxySpec

(* Whatever clients ask, origins answer or fail to and the cache does        *)
(* meanwhile, a client gets one whole answer, or the beginning of one and    *)
(* then nothing: never an error or a second answer behind a first one.       *)
THEOREM AnsweredOnce == ProxySpec => []OneAnswer
<1>1. AnswerInv => OneAnswer
  <2> SUFFICES ASSUME AnswerInv, NEW p \in Threads PROVE Ends(reply[p])
    BY DEF OneAnswer, Ends
  <2>1. CASE In(p, {"chunks"})
    BY <2>1, TwoMessages DEF AnswerInv, Answered, In
  <2>2. CASE ~In(p, {"chunks"})
    BY <2>2 DEF AnswerInv, Answered, In, Ends
  <2> QED  BY <2>1, <2>2
<1> QED  BY <1>1, AnswerAlways, PTL

-----------------------------------------------------------------------------
(* What a 304 confirms is current: NotModifiedMeansCurrent.                  *)

(* A response that get may return: one that was handed to put, or anything.  *)
Found(r) == r = Wild \/ (r \in Responses /\ life[r] # "new")

(* What a thread knows on its way from the lookup to the validation: what    *)
(* it found; that no answer has come before it asked; that it asks with the  *)
(* found response's version, and that a 304 names the version asked with.    *)
Asked(p) ==
    /\ In(p, {"accepted", "lookup", "judge", "fresh", "revalidate"}) => thread[p].wire = NULL
    /\ In(p, {"lookup"}) =>
          /\ call[p].at \in {"get", "getRead", "idle", "crashed"}
          /\ call[p].at = "idle" => call[p].ret = NULL \/ Found(call[p].ret)
    /\ In(p, {"judge", "fresh", "revalidate", "validate"}) => Found(thread[p].held)
    /\ In(p, {"validate"}) =>
          /\ Alive(thread[p].held) /\ object[thread[p].held].validator =>
                thread[p].ask = object[thread[p].held].ver
          /\ Arrived(p, {"notModified"}) => thread[p].wire.ver = thread[p].ask

EveryEntryGiven ==
    \A e \in Entries : entry[e].resp # NULL => life[entry[e].resp] # "new"

AskInv == EveryEntryGiven /\ \A p \in Threads : Asked(p)

(* A response is new, then handed to put, then deleted.                      *)
LifeGoesOn ==
    \A r \in Responses :
        /\ life[r] # "new" => life'[r] # "new"
        /\ life[r] = "deleted" => life'[r] = "deleted"

ObjectsKept == \A r \in Responses : life[r] # "new" => object'[r] = object[r]

LEMMA LifeStep ==
    ASSUME IInv, [Next]_vars
    PROVE  LifeGoesOn
<1>1. ASSUME NEW t \in Threads, PutFound(t)
      PROVE  LifeGoesOn
  BY <1>1 DEF PutFound, LifeGoesOn, IInv, TypeOK
<1>2. ASSUME NEW t \in Threads, NEW u, NEW r \in Responses, PutCall(t, u, r)
      PROVE  LifeGoesOn
  BY <1>2 DEF PutCall, LifeGoesOn, IInv, TypeOK
<1>3. CASE UNCHANGED life
  BY <1>3 DEF LifeGoesOn
<1>4. ASSUME NEW t \in Threads, Step(t)
      PROVE  LifeGoesOn
  <2>1. UNCHANGED life \/ PutFound(t)
    BY <1>4 DEF Step, GetMiss, GetHit, GetRead, PutUpdate, PutEvict, PutMiss, PutPop,
                PutInsert, PutKey, PutLink,
                ExpireFind, ExpireMiss, ExpireRead, ReadCrashes
  <2> QED  BY <1>1, <1>3, <1>4, <2>1
<1>5. ASSUME NEW t \in Threads, Calls(t)
      PROVE  LifeGoesOn
  BY <1>2, <1>3, <1>5 DEF Calls, GetCall, ExpireCall
<1> QED
  BY <1>3, <1>4, <1>5 DEF Next, Running, Dead, vars

LEMMA EntryStep ==
    ASSUME IInv, EveryEntryGiven, [Next]_vars
    PROVE  EveryEntryGiven'
<1>1. LifeGoesOn
  BY LifeStep
<1>2. entry \in [Entries -> [url : Urls \cup {NULL}, resp : Responses \cup {NULL}]]
  BY DEF IInv, TypeOK
<1>3. CASE UNCHANGED entry
  BY <1>1, <1>2, <1>3 DEF EveryEntryGiven, LifeGoesOn
<1>4. ASSUME NEW t \in Threads, PutUpdate(t) \/ PutInsert(t)
      PROVE  EveryEntryGiven'
  <2>0. call[t].at \in Holding /\ UNCHANGED life
    BY <1>4 DEF PutUpdate, PutInsert, At, Holding
  <2>1. call[t].val \in Responses /\ life[call[t].val] # "new" /\ UNCHANGED life
    <3>1. call[t].val # NULL
      BY <2>0 DEF IInv, CallsAgree
    <3>2. call[t].val \in Responses
      BY <3>1 DEF IInv, TypeOK, CallRecord
    <3> QED  BY <2>0, <3>1, <3>2 DEF IInv, OneOwner
  <2>2. \A e \in Entries : entry'[e].resp \in {entry[e].resp, call[t].val}
    BY <1>2, <1>4 DEF PutUpdate, PutInsert, Store
  <2> QED  BY <2>1, <2>2 DEF EveryEntryGiven
<1>5. ASSUME NEW t \in Threads, Step(t)
      PROVE  EveryEntryGiven'
  <2>1. UNCHANGED entry \/ PutUpdate(t) \/ PutInsert(t)
    BY <1>5 DEF Step, GetMiss, GetHit, GetRead, PutFound, PutEvict, PutMiss, PutPop,
                PutKey, PutLink,
                ExpireFind, ExpireMiss, ExpireRead, ReadCrashes
  <2> QED  BY <1>3, <1>4, <2>1
<1>6. ASSUME NEW t \in Threads, Calls(t)
      PROVE  UNCHANGED entry
  BY <1>6 DEF Calls, GetCall, ExpireCall, PutCall
<1> QED
  BY <1>3, <1>5, <1>6 DEF Next, Running, Dead, vars

(* A thread fills in its response before it hands it over, not after.        *)
LEMMA ObjectStep ==
    ASSUME OKInv, NEW p \in Threads, Arrive(p) \/ Run(p) \/ OriginAnswers(p) \/ TunnelClosed(p)
    PROVE  ObjectsKept
<1>1. CASE UNCHANGED object
  BY <1>1 DEF ObjectsKept
<1>2. ASSUME NEW o, object' = [object EXCEPT ![p] = o], ~In(p, End)
      PROVE  ObjectsKept
  <2>1. life[p] = "new"
    BY <1>2 DEF OKInv, HandedOver, End, In
  <2> QED  BY <1>2, <2>1, OwnResponse DEF ObjectsKept, OKInv
<1>3. CASE Arrive(p) \/ OriginAnswers(p) \/ TunnelClosed(p)
  BY <1>1, <1>3 DEF Arrive, Accept, AcceptMalformed, AcceptFails, OriginAnswers, Answer,
                    TunnelClosed
<1>4. CASE \/ InCache(p) \/ LookupMissed(p) \/ LookupFound(p) \/ Expired(p) \/ Fresh(p)
           \/ MustValidate(p) \/ Serve(p) \/ ConnectFails(p) \/ ConnectFetch(p)
           \/ ConnectValidate(p) \/ ConnectTunnel(p) \/ FetchHeadless(p) \/ FetchFails(p)
           \/ FetchChunked(p) \/ Stored(p) \/ Updated(p)
  BY <1>1, <1>4 DEF InCache, own, LookupMissed, LookupFound, Expired, Fresh, MustValidate,
                    Serve, ConnectFails, ConnectFetch, ConnectValidate, ConnectTunnel,
                    FetchHeadless, FetchFails, FetchChunked, Stored, Updated
<1>5. CASE \/ FetchWhole(p) \/ FetchPart(p) \/ ChunksEnd(p) \/ ChunksCut(p)
           \/ ValidateOK(p) \/ ValidateNotModified(p) \/ ValidateOther(p) \/ ValidateFails(p)
  <2>1. ~In(p, End)
    BY <1>5 DEF FetchWhole, FetchPart, ChunksEnd, ChunksCut, ValidateOK,
                ValidateNotModified, ValidateOther, ValidateFails, In, End
  <2>2. UNCHANGED object \/ object' = [object EXCEPT ![p] = Parsed(p)]
    BY <1>5 DEF FetchWhole, FetchPart, ChunksEnd, ChunksCut, ValidateOK,
                ValidateNotModified, ValidateOther, ValidateFails, Keep
  <2> QED  BY <1>1, <1>2, <2>1, <2>2
<1> QED
  BY <1>3, <1>4, <1>5 DEF Run

(* A step of one thread leaves the others and their calls alone.             *)
LEMMA OneCall ==
    ASSUME IInv, NEW p \in Threads, NEW q \in Threads \ {p}
    PROVE  /\ Step(p) => call'[q] = call[q]
           /\ \A u : GetCall(p, u) \/ ExpireCall(p, u) => call'[q] = call[q]
           /\ \A u, r : PutCall(p, u, r) => call'[q] = call[q]
<1>call. call \in [Threads -> CallRecord]
  BY DEF IInv, TypeOK
<1>1. ASSUME NEW v, Return(p, v)
      PROVE  call'[q] = call[q]
  BY <1>1, <1>call DEF Return
<1>2. ASSUME NEW place, NEW e, NEW v, Move(p, place, e, v)
      PROVE  call'[q] = call[q]
  BY <1>2, <1>call DEF Move
<1>crash. Crash(p) => call'[q] = call[q]
  BY <1>call DEF Crash
<1>3. ASSUME Step(p)
      PROVE  call'[q] = call[q]
  <2>1. \/ \E v : Return(p, v)
        \/ \E place, e, v : Move(p, place, e, v)
        \/ Crash(p)
    BY <1>3 DEF Step, GetMiss, GetHit, GetRead, ReadEntry, PutFound, PutUpdate, PutEvict,
                PutMiss,
                PutPop, PutInsert, PutKey, PutLink, ExpireFind, ExpireMiss, ExpireRead,
                ReadCrashes
  <2> QED  BY <1>1, <1>2, <1>crash, <2>1
<1>4. \A step, u, r : Call(p, step, u, r) => call'[q] = call[q]
  BY <1>call DEF Call
<1> QED  BY <1>3, <1>4 DEF GetCall, ExpireCall, PutCall

LEMMA OneLocals ==
    ASSUME RequestKnown, NEW p \in Threads, NEW q \in Threads \ {p}
    PROVE  /\ Exit(p) => thread'[q] = thread[q]
           /\ \A place : Goto(p, place) => thread'[q] = thread[q]
           /\ \A r, place : Begin(p, r, place) => thread'[q] = thread[q]
           /\ Keep(p) => thread'[q] = thread[q]
BY DEF RequestKnown, Exit, Goto, Begin, Keep

LEMMA OthersStay ==
    ASSUME RequestKnown, IInv, NEW p \in Threads,
           Arrive(p) \/ Run(p) \/ OriginAnswers(p) \/ TunnelClosed(p),
           NEW q \in Threads \ {p}
    PROVE  thread'[q] = thread[q] /\ call'[q] = call[q]
<1>1. CASE InCache(p)
  BY <1>1, OneCall DEF InCache, own
<1>2. CASE LookupMissed(p) \/ MustValidate(p) \/ ConnectTunnel(p) \/ FetchChunked(p)
  BY <1>2, OneLocals DEF LookupMissed, MustValidate, ConnectTunnel, FetchChunked, vars
<1>3. CASE Expired(p) \/ Fresh(p) \/ ConnectFetch(p) \/ ConnectValidate(p) \/ OriginAnswers(p)
  BY <1>3 DEF Expired, Fresh, ConnectFetch, ConnectValidate, OriginAnswers, Answer, vars,
              RequestKnown
<1>4. CASE LookupFound(p)
  BY <1>4, OneCall DEF LookupFound, RequestKnown
<1>5. CASE Serve(p) \/ ConnectFails(p) \/ FetchPart(p) \/ FetchHeadless(p)
           \/ FetchFails(p) \/ ChunksCut(p) \/ ValidateNotModified(p)
           \/ ValidateOther(p) \/ ValidateFails(p) \/ Stored(p) \/ Updated(p)
           \/ TunnelClosed(p)
  <2>1. Exit(p) /\ UNCHANGED vars
    BY <1>5 DEF Serve, ConnectFails, FetchPart, FetchHeadless, FetchFails,
                ChunksCut, ValidateNotModified, ValidateOther, ValidateFails,
                Stored, Updated, TunnelClosed
  <2> QED  BY <2>1, OneLocals DEF vars
<1>6. CASE FetchWhole(p) \/ ChunksEnd(p)
  <2>1. Keep(p)
    BY <1>6 DEF FetchWhole, ChunksEnd
  <2>2. UNCHANGED vars \/ \E u, r : PutCall(p, u, r)
    BY <2>1 DEF Keep
  <2> QED  BY <2>1, <2>2, OneLocals, OneCall DEF vars
<1>7. CASE ValidateOK(p)
  BY <1>7, OneLocals, OneCall DEF ValidateOK
<1>8. CASE AcceptMalformed(p) \/ AcceptFails(p)
  BY <1>8, OneLocals DEF AcceptMalformed, AcceptFails, vars
<1>9. ASSUME NEW r \in Requests, Accept(p, r)
      PROVE  thread'[q] = thread[q] /\ call'[q] = call[q]
  <2>1. \E place : Begin(p, r, place)
    BY <1>9 DEF Accept
  <2>2. UNCHANGED vars \/ \E u : GetCall(p, u)
    BY <1>9 DEF Accept
  <2> QED  BY <2>1, <2>2, OneLocals, OneCall DEF vars
<1> QED
  BY <1>1, <1>2, <1>3, <1>4, <1>5, <1>6, <1>7, <1>8, <1>9 DEF Run, Arrive

(* What a thread knows stays true while others run.                          *)
LEMMA AskedStays ==
    ASSUME LifeGoesOn, ObjectsKept, NEW q \in Threads, Asked(q),
           thread'[q] = thread[q], call'[q] = call[q]
    PROVE  Asked(q)'
<1>1. \A r : Found(r) => Found(r)'
  BY DEF Found, LifeGoesOn
<1>2. ASSUME NEW r, Found(r), Alive(r)'
      PROVE  Alive(r) /\ object'[r] = object[r]
  BY <1>2 DEF Found, Alive, LifeGoesOn, ObjectsKept
<1> QED  BY <1>1, <1>2 DEF Asked, In, Arrived

(* The step of the thread itself.                                            *)
LEMMA AskedOwn ==
    ASSUME RequestKnown, IInv, EveryEntryGiven, LifeGoesOn, ObjectsKept, NullAssumption,
           NEW p \in Threads, Asked(p),
           Arrive(p) \/ Run(p) \/ OriginAnswers(p) \/ TunnelClosed(p)
    PROVE  Asked(p)'
<1> DEFINE Seeking == {"accepted", "lookup", "judge", "fresh", "revalidate", "validate"}
<1>1. CASE ~In(p, Seeking)'
  BY <1>1 DEF Asked, In
<1>2. CASE InCache(p)
  <2>1. thread' = thread /\ Step(p)
    BY <1>2 DEF InCache, own
  <2>2. CASE ~In(p, {"lookup"})
    BY <2>1, <2>2, LifeStep DEF Asked, In, Found, Alive, LifeGoesOn, ObjectsKept, Arrived
  <2>3. CASE In(p, {"lookup"})
    <3>1. call[p].at \in {"get", "getRead"}
      BY <2>1, <2>3 DEF Asked, Step, At, GetMiss, GetHit, GetRead, PutFound, PutUpdate,
                        PutEvict, PutMiss, PutPop, PutInsert, PutKey, PutLink, ExpireFind,
                        ExpireMiss, ExpireRead, ReadCrashes
    <3>2. GetMiss(p) \/ GetHit(p) \/ GetRead(p) \/ ReadCrashes(p)
      BY <2>1, <3>1 DEF Step, At, PutFound, PutUpdate, PutEvict, PutMiss, PutPop,
                        PutInsert, PutKey, PutLink,
                        ExpireFind, ExpireMiss, ExpireRead, ReadCrashes
    <3>3. CASE GetMiss(p)
      BY <2>1, <2>3, <3>3 DEF GetMiss, Return, Idle, Frame, Asked, In, IInv, TypeOK
    <3>4. CASE GetHit(p)
      BY <2>1, <2>3, <3>4 DEF GetHit, Move, Frame, Asked, In, IInv, TypeOK
    <3>5. CASE GetRead(p)
      <4>1. PICK r \in Loaded(call[p].it) : Return(p, r)
        BY <3>5 DEF GetRead, ReadEntry
      <4>2. call[p].it \in Entries
        BY <3>5 DEF GetRead, At, IInv, CallsAgree
      <4>3. r = NULL \/ Found(r)
        BY <4>1, <4>2 DEF Loaded, Found, EveryEntryGiven, IInv, TypeOK
      <4>4. r = NULL \/ Found(r)'
        BY <4>3 DEF Found, LifeGoesOn
      <4>5. call'[p].at = "idle" /\ call'[p].ret = r
        BY <4>1 DEF Return, Idle, Frame, IInv, TypeOK
      <4> QED  BY <2>1, <2>3, <4>4, <4>5 DEF Asked, In
    <3>6. CASE ReadCrashes(p)
      <4>1. call'[p].at = "crashed"
        BY <3>6 DEF ReadCrashes, Crash, IInv, TypeOK
      <4> QED  BY <2>1, <2>3, <4>1 DEF Asked, In
    <3> QED  BY <3>2, <3>3, <3>4, <3>5, <3>6
  <2> QED  BY <2>2, <2>3
<1>3. CASE LookupFound(p)
  <2>1. /\ thread'[p].pc = "judge" /\ thread'[p].held = call[p].ret
        /\ thread'[p].wire = thread[p].wire /\ In(p, {"lookup"})
        /\ call[p].at = "idle" /\ call[p].ret # NULL
    BY <1>3 DEF LookupFound, In, At, RequestKnown, Known, Fields
  <2>2. Found(call[p].ret)
    BY <2>1 DEF Asked
  <2>3. Found(thread[p].held)'
    BY <2>1, <2>2 DEF Found, LifeGoesOn
  <2> QED  BY <2>1, <2>3 DEF Asked, In
<1>4. CASE Expired(p) \/ Fresh(p) \/ MustValidate(p)
  <2>1. /\ thread'[p].pc \in {"revalidate", "fresh"} /\ thread'[p].held = thread[p].held
        /\ thread'[p].wire = thread[p].wire /\ In(p, {"judge", "fresh"})
    BY <1>4 DEF Expired, Fresh, MustValidate, Goto, In, RequestKnown, Known, Fields
  <2>2. Found(thread[p].held)'
    BY <2>1 DEF Asked, In, Found, LifeGoesOn
  <2> QED  BY <2>1, <2>2 DEF Asked, In
<1>5. CASE ConnectValidate(p)
  <2>1. PICK o \in Deref(thread[p].held) :
            thread' = [thread EXCEPT ![p].pc = "validate",
                                     ![p].ask = Validator(thread[p].req.cond, o)]
    BY <1>5 DEF ConnectValidate
  <2>2. In(p, {"revalidate"}) /\ UNCHANGED <<life, object>>
    BY <1>5 DEF ConnectValidate, vars
  <2>3. /\ thread'[p].pc = "validate" /\ thread'[p].held = thread[p].held
        /\ thread'[p].wire = thread[p].wire
        /\ thread'[p].ask = Validator(thread[p].req.cond, o)
    BY <2>1 DEF RequestKnown, Known, Fields
  <2>4. Found(thread[p].held) /\ thread[p].wire = NULL
    BY <2>2 DEF Asked, In
  <2>5. Alive(thread[p].held) /\ object[thread[p].held].validator =>
            thread'[p].ask = object[thread[p].held].ver
    BY <2>1, <2>3 DEF Deref, Alive, Validator
  <2> QED  BY <2>2, <2>3, <2>4, <2>5 DEF Asked, In, Found, Alive, Arrived
<1>6. ASSUME NEW q \in Requests, Accept(p, q)
      PROVE  Asked(p)'
  <2>1. In(p, {"accepted"}) /\ \E place : Begin(p, q, place)
    BY <1>6 DEF Accept
  <2>2. thread'[p].wire = thread[p].wire /\ thread[p].wire = NULL
    BY <2>1 DEF Begin, Asked, In, RequestKnown, Known, Fields
  <2>3. \/ thread'[p].pc = "lookup" /\ GetCall(p, Key(q))
        \/ thread'[p].pc \in {"connect", "done"}
    BY <1>6 DEF Accept, Begin, RequestKnown, Known, Fields
  <2>4. GetCall(p, Key(q)) => call'[p].at = "get"
    BY DEF GetCall, Call, Frame, IInv, TypeOK
  <2> QED  BY <2>2, <2>3, <2>4 DEF Asked, In
<1>7. CASE OriginAnswers(p)
  <2>1. PICK kind \in Answers : Answer(p, kind)
    BY <1>7 DEF OriginAnswers
  <2>2. /\ thread'[p].pc = thread[p].pc /\ thread'[p].held = thread[p].held
        /\ thread'[p].ask = thread[p].ask /\ In(p, {"fetch", "validate"})
        /\ thread'[p].wire.kind = kind
        /\ thread'[p].wire.ver = origin[thread[p].req.url]
        /\ UNCHANGED <<life, object>>
    BY <2>1 DEF Answer, vars, RequestKnown, Known, Fields
  <2>3. kind = "notModified" => thread[p].ask = origin[thread[p].req.url]
    BY <2>1 DEF Answer
  <2> QED  BY <2>2, <2>3 DEF Asked, In, Found, Alive, Arrived
<1>8. CASE \/ LookupMissed(p) \/ ConnectFetch(p) \/ ConnectTunnel(p) \/ FetchChunked(p)
           \/ ValidateOK(p)
  BY <1>1, <1>8 DEF LookupMissed, ConnectFetch, ConnectTunnel, FetchChunked, ValidateOK,
                    Goto, In, RequestKnown, Known, Fields
<1>9. CASE Exit(p) \/ Goto(p, "store")
  BY <1>1, <1>9, ExitLocals, GotoLocals DEF In
<1>10. CASE FetchWhole(p) \/ ChunksEnd(p)
  BY <1>9, <1>10 DEF FetchWhole, ChunksEnd, Keep
<1>11. CASE Serve(p) \/ ConnectFails(p) \/ FetchPart(p) \/ FetchHeadless(p)
           \/ FetchFails(p) \/ ChunksCut(p) \/ ValidateNotModified(p)
           \/ ValidateOther(p) \/ ValidateFails(p) \/ Stored(p) \/ Updated(p)
           \/ TunnelClosed(p) \/ AcceptMalformed(p) \/ AcceptFails(p)
  BY <1>9, <1>11 DEF Serve, ConnectFails, FetchPart, FetchHeadless, FetchFails,
                ChunksCut, ValidateNotModified, ValidateOther, ValidateFails,
                Stored, Updated, TunnelClosed, AcceptMalformed, AcceptFails
<1> QED
  BY <1>2, <1>3, <1>4, <1>5, <1>6, <1>7, <1>8, <1>10, <1>11 DEF Run, Arrive

LEMMA AskStep ==
    ASSUME RequestKnown, IInv, OKInv, AskInv, [ProxyNext]_proxyVars
    PROVE  AskInv'
<1>1. [Next]_vars
  BY ProxyStep
<1>2. EveryEntryGiven' /\ LifeGoesOn
  BY <1>1, EntryStep, LifeStep DEF AskInv
<1>3. ASSUME NEW p \in Threads,
             Arrive(p) \/ Run(p) \/ OriginAnswers(p) \/ TunnelClosed(p)
      PROVE  AskInv'
  <2>1. ObjectsKept
    BY <1>3, ObjectStep
  <2>2. Asked(p)'
    BY <1>2, <1>3, <2>1, AskedOwn, NullAssumption DEF AskInv
  <2>3. ASSUME NEW q \in Threads \ {p}
        PROVE  Asked(q)'
    <3>1. thread'[q] = thread[q] /\ call'[q] = call[q]
      BY <1>3, OthersStay
    <3> QED  BY <1>2, <2>1, <3>1, AskedStays DEF AskInv
  <2> QED  BY <1>2, <2>2, <2>3 DEF AskInv
<1>4. CASE UNCHANGED <<vars, own>>
  <2>1. UNCHANGED <<thread, call, object>>
    BY <1>4 DEF vars, own
  <2>2. ObjectsKept
    BY <2>1 DEF ObjectsKept
  <2> QED  BY <1>2, <2>1, <2>2, AskedStays DEF AskInv
<1>5. (\E u \in Urls : Change(u)) \/ AllDone \/ UNCHANGED proxyVars => UNCHANGED <<vars, own>>
  BY DEF Change, AllDone, proxyVars
<1> QED
  BY <1>3, <1>4, <1>5, Zenon DEF ProxyNext

LEMMA AskAlways == ProxySpec => []AskInv
<1>1. ProxyInit => AskInv
  BY DEF ProxyInit, Init, AskInv, EveryEntryGiven, Asked, In
<1>2. RequestKnown /\ IInv /\ OKInv /\ AskInv /\ [ProxyNext]_proxyVars => AskInv'
  BY AskStep
<1>3. ProxySpec => []RequestKnown
  BY InitKnown, ProxyStep, PTL DEF ProxySpec
<1>4. ProxySpec => []IInv
  BY ProxyUsesCache, Invariance, PTL
<1> QED  BY <1>1, <1>2, <1>3, <1>4, OKAlways, PTL DEF ProxySpec

(* When a thread answers its client from the cache because the origin said   *)
(* 304 to the cached response's own validator, that response is the version  *)
(* that the origin had when it said so.                                      *)
THEOREM ConfirmedIsCurrent == ProxySpec => []NotModifiedMeansCurrent
<1>1. AskInv => NotModifiedMeansCurrent
  BY DEF AskInv, Asked, NotModifiedMeansCurrent, In
<1> QED  BY <1>1, AskAlways, PTL

-----------------------------------------------------------------------------
(* Who was given a response has got all of it: CachedIsOK.                   *)

(* A thread that has put its response in the cache and ended has sent a      *)
(* whole answer.                                                             *)
SentInv == \A p \in Threads : In(p, {"done"}) /\ life[p] # "new" => Whole(reply[p])

(* What one thread does to the replies,                                      *)
LEMMA OneReply ==
    ASSUME NEW p \in Threads,
           Arrive(p) \/ Run(p) \/ OriginAnswers(p) \/ TunnelClosed(p)
    PROVE  UNCHANGED reply \/ \E kind, ver : Send(p, kind, ver)
<1>1. CASE \/ InCache(p) \/ LookupMissed(p) \/ LookupFound(p) \/ Expired(p) \/ Fresh(p)
           \/ MustValidate(p) \/ ConnectFetch(p) \/ ConnectValidate(p) \/ FetchFails(p)
           \/ ValidateOK(p) \/ ValidateFails(p) \/ Stored(p) \/ OriginAnswers(p)
           \/ TunnelClosed(p) \/ AcceptFails(p)
  BY <1>1 DEF InCache, own, LookupMissed, LookupFound, Expired, Fresh, MustValidate,
              ConnectFetch, ConnectValidate, FetchFails, ValidateOK, ValidateFails, Stored,
              OriginAnswers, Answer, TunnelClosed, AcceptFails
<1>2. CASE \/ Serve(p) \/ ConnectFails(p) \/ ConnectTunnel(p) \/ FetchWhole(p) \/ FetchPart(p)
           \/ FetchHeadless(p) \/ FetchChunked(p) \/ ChunksEnd(p) \/ ChunksCut(p)
           \/ ValidateNotModified(p) \/ ValidateOther(p) \/ Updated(p) \/ AcceptMalformed(p)
  BY <1>2 DEF Serve, ConnectFails, ConnectTunnel, FetchWhole, FetchPart, FetchHeadless,
              FetchChunked, ChunksEnd, ChunksCut, ValidateNotModified, ValidateOther,
              Updated, AcceptMalformed, SendError
<1>3. CASE \E q \in Requests : Accept(p, q)
  BY <1>3 DEF Accept, SendError
<1> QED  BY <1>1, <1>2, <1>3 DEF Run, Arrive

(* and to the lives of the responses: it hands over its own at most.         *)
LEMMA OneLife ==
    ASSUME IInv, IInv', NEW p \in Threads,
           Arrive(p) \/ Run(p) \/ OriginAnswers(p) \/ TunnelClosed(p)
    PROVE  \A q \in Threads \ {p} : life'[q] # "new" => life[q] # "new"
<1>1. CASE UNCHANGED life
  BY <1>1
<1>2. CASE InCache(p)
  BY <1>2, StepEffect, OwnResponse DEF InCache
<1>3. ASSUME NEW u, PutCall(p, u, p)
      PROVE  \A q \in Threads \ {p} : life'[q] # "new" => life[q] # "new"
  BY <1>3, OwnResponse DEF PutCall, IInv, TypeOK
<1>4. CASE FetchWhole(p) \/ ChunksEnd(p) \/ ValidateOK(p)
  BY <1>1, <1>3, <1>4 DEF FetchWhole, ChunksEnd, ValidateOK, Keep, vars
<1>5. CASE Arrive(p) \/ OriginAnswers(p) \/ TunnelClosed(p)
  BY <1>1, <1>5 DEF Arrive, Accept, AcceptMalformed, AcceptFails, GetCall, OriginAnswers,
                    Answer, TunnelClosed, vars
<1>6. CASE \/ LookupMissed(p) \/ LookupFound(p) \/ Expired(p) \/ Fresh(p)
           \/ MustValidate(p) \/ Serve(p) \/ ConnectFails(p) \/ ConnectFetch(p)
           \/ ConnectValidate(p) \/ ConnectTunnel(p) \/ FetchPart(p) \/ FetchHeadless(p)
           \/ FetchFails(p) \/ FetchChunked(p) \/ ChunksCut(p) \/ ValidateNotModified(p)
           \/ ValidateOther(p) \/ ValidateFails(p) \/ Stored(p) \/ Updated(p)
  BY <1>1, <1>6 DEF LookupMissed, LookupFound, Expired, Fresh, MustValidate, Serve,
                    ConnectFails, ConnectFetch, ConnectValidate, ConnectTunnel, FetchPart,
                    FetchHeadless, FetchFails, FetchChunked, ChunksCut, ValidateNotModified,
                    ValidateOther, ValidateFails, Stored, Updated, ExpireCall, vars
<1> QED  BY <1>2, <1>4, <1>5, <1>6 DEF Run

(* A thread that ends has sent nothing, has lost or dropped its response, or *)
(* is back from the put.                                                     *)
LEMMA SentOwn ==
    ASSUME RequestKnown, IInv, IInv', OKInv, AnswerInv, NEW p \in Threads,
           Arrive(p) \/ Run(p) \/ OriginAnswers(p) \/ TunnelClosed(p),
           In(p, {"done"})', life'[p] # "new"
    PROVE  Whole(reply'[p])
<1>1. CASE Stored(p)
  BY <1>1 DEF Stored, In, AnswerInv, Answered
<1>2. CASE Updated(p)
  <2> DEFINE m == [kind |-> "forwarded", ver |-> thread[p].wire.ver]
  <2>1. reply[p] = << >> /\ p \in DOMAIN reply
        /\ reply' = [reply EXCEPT ![p] = Append(reply[p], m)]
    BY <1>2 DEF Updated, Send, In, AnswerInv, Answered, Silent
  <2>2. reply'[p] = Append(<< >>, m)
    BY <2>1
  <2> QED  BY <2>2, OneMessage
<1>3. CASE ~Stored(p) /\ ~Updated(p)
  <2>1. ~In(p, {"done"})
    BY DEF Arrive, Accept, AcceptMalformed, AcceptFails, OriginAnswers, Answer,
           TunnelClosed,
           Run, InCache, LookupMissed, LookupFound, Expired, Fresh, MustValidate, Serve,
           ConnectFails, ConnectFetch, ConnectValidate, ConnectTunnel, FetchWhole,
           FetchPart, FetchHeadless, FetchFails, FetchChunked, ChunksEnd, ChunksCut,
           ValidateOK, ValidateNotModified, ValidateOther, ValidateFails, Stored, Updated,
           In
  <2>2. ~InCache(p)
    BY <2>1 DEF InCache, own, In
  <2>3. ~In(p, {"store", "update"})
    BY <1>3, <2>2 DEF Arrive, Accept, AcceptMalformed, AcceptFails, OriginAnswers, Answer,
           TunnelClosed,
           Run, LookupMissed, LookupFound, Expired, Fresh, MustValidate, Serve,
           ConnectFails, ConnectFetch, ConnectValidate, ConnectTunnel, FetchWhole,
           FetchPart, FetchHeadless, FetchFails, FetchChunked, ChunksEnd, ChunksCut,
           ValidateOK, ValidateNotModified, ValidateOther, ValidateFails, In
  <2>4. life[p] = "new"
    BY <2>1, <2>3 DEF OKInv, HandedOver, In
  <2>5. Goto(p, "store") \/ Goto(p, "update") \/ UNCHANGED life
    BY <1>3, <2>2 DEF Arrive, Accept, AcceptMalformed, AcceptFails, GetCall, OriginAnswers,
           Answer, TunnelClosed,
           Run, LookupMissed, LookupFound, Expired, Fresh, MustValidate, Serve,
           ConnectFails, ConnectFetch, ConnectValidate, ConnectTunnel, FetchWhole,
           FetchPart, FetchHeadless, FetchFails, FetchChunked, ChunksEnd, ChunksCut,
           ValidateOK, ValidateNotModified, ValidateOther, ValidateFails, ExpireCall, Keep,
           vars
  <2> QED  BY <2>4, <2>5, GotoLocals DEF In
<1> QED  BY <1>1, <1>2, <1>3

LEMMA SentStep ==
    ASSUME RequestKnown, IInv, IInv', OKInv, AnswerInv, SentInv, [ProxyNext]_proxyVars
    PROVE  SentInv'
<1>1. ASSUME NEW p \in Threads,
             Arrive(p) \/ Run(p) \/ OriginAnswers(p) \/ TunnelClosed(p)
      PROVE  SentInv'
  <2>1. ASSUME NEW q \in Threads \ {p}
        PROVE  /\ thread'[q] = thread[q] /\ reply'[q] = reply[q]
               /\ life'[q] # "new" => life[q] # "new"
    BY <1>1, OthersStay, OneReply, OneLife DEF Send, AnswerInv
  <2>2. ASSUME NEW q \in Threads, In(q, {"done"})', life'[q] # "new"
        PROVE  Whole(reply'[q])
    <3>1. CASE q = p
      BY <1>1, <2>2, <3>1, SentOwn
    <3>2. CASE q # p
      <4>1. thread'[q] = thread[q] /\ reply'[q] = reply[q] /\ life[q] # "new"
        BY <2>1, <2>2, <3>2
      <4> QED  BY <2>2, <4>1 DEF SentInv, In
    <3> QED  BY <3>1, <3>2
  <2> QED  BY <2>2 DEF SentInv, In, Whole, Kinds
<1>2. CASE UNCHANGED <<vars, own>>
  BY <1>2 DEF vars, own, SentInv, In, Whole, Kinds
<1>3. (\E u \in Urls : Change(u)) \/ AllDone \/ UNCHANGED proxyVars => UNCHANGED <<vars, own>>
  BY DEF Change, AllDone, proxyVars
<1> QED  BY <1>1, <1>2, <1>3, Zenon DEF ProxyNext

(* Whatever clients ask, origins answer and threads do meanwhile, the cache  *)
(* holds only answers with status 200, each under the url it was asked by,   *)
(* and the client it was fetched for was sent all of it, or is about to be.  *)
THEOREM OnlyOKCached == ProxySpec => []CachedIsOK
<1>1. ProxyInit => SentInv
  BY OwnResponse DEF ProxyInit, Init, SentInv
<1>2. RequestKnown /\ IInv /\ IInv' /\ OKInv /\ AnswerInv /\ SentInv /\ [ProxyNext]_proxyVars
        => SentInv'
  BY SentStep
<1>3. IInv /\ OKInv /\ AnswerInv /\ SentInv => CachedIsOK
  <2> SUFFICES ASSUME IInv, OKInv, AnswerInv, SentInv, NEW e \in Range(respList), NEW r,
                      r = entry[e].resp
               PROVE  /\ object[r].status = "ok" /\ object[r].url = entry[e].url
                      /\ Whole(reply[r]) \/ In(r, {"update"})
    BY DEF CachedIsOK
  <2>1. object[r].status = "ok" /\ object[r].url = entry[e].url
    BY DEF OKInv, ListIsOK
  <2>2. r \in Threads /\ life[r] # "new"
    BY OwnResponse DEF IInv, EntriesGiven
  <2>3. In(r, {"store", "update", "done"})
    BY <2>2 DEF OKInv, HandedOver
  <2>4. Whole(reply[r]) \/ In(r, {"update"})
    BY <2>2, <2>3 DEF AnswerInv, Answered, SentInv, In
  <2> QED  BY <2>1, <2>4
<1>4. ProxySpec => []RequestKnown
  BY InitKnown, ProxyStep, PTL DEF ProxySpec
<1>5. ProxySpec => []IInv
  BY ProxyUsesCache, Invariance, PTL
<1> QED
  BY <1>1, <1>2, <1>3, <1>4, <1>5, OKAlways, AnswerAlways, PTL DEF ProxySpec

-----------------------------------------------------------------------------
(* Who is left without an answer: SilentOnlyOnFailure.                       *)

(* A message that is sent is there.                                          *)
LEMMA SentSomething ==
    ASSUME RequestKnown, AnswerInv, NEW p \in Threads, NEW kind, NEW ver, Send(p, kind, ver),
           In(p, Silent \cup {"chunks"})
    PROVE  reply'[p] # << >>
<1> DEFINE m == [kind |-> kind, ver |-> ver]
<1>1. reply'[p] = Append(reply[p], m)
  BY DEF Send, AnswerInv
<1>2. CASE In(p, Silent)
  <2>1. reply[p] = << >>
    BY <1>2 DEF AnswerInv, Answered, In
  <2> QED  BY <1>1, <2>1
<1>3. CASE In(p, {"chunks"})
  <2>1. reply[p] = << [kind |-> "head", ver |-> thread[p].wire.ver] >>
    BY <1>3 DEF AnswerInv, Answered, In
  <2> QED  BY <1>1, <2>1
<1> QED  BY <1>2, <1>3 DEF In

(* No message is no answer.                                                  *)
LEMMA NoMessage == ~Whole(<< >>)
<1>1. DOMAIN Kinds(<< >>) = {}
  BY DEF Kinds
<1>2. DOMAIN <<"head", "rest">> = {1, 2}
  OBVIOUS
<1>3. Kinds(<< >>) # <<"head", "rest">>
  BY <1>1, <1>2
<1> QED  BY <1>3 DEF Whole

(* The actions that end a thread without a word are those of a failure.      *)
LEMMA SilentOwn ==
    ASSUME RequestKnown, AnswerInv, NEW p \in Threads,
           Arrive(p) \/ Run(p) \/ OriginAnswers(p) \/ TunnelClosed(p),
           In(p, {"done"})', ~In(p, {"done"}), thread[p].req # NULL, reply'[p] = << >>
    PROVE  In(p, {"validate"}) \/ Arrived(p, {"reset", "unsent"})
<1>1. ~Arrive(p)
  BY DEF Arrive, Accept, AcceptMalformed, AcceptFails, In, AnswerInv, Answered
<1>2. ~TunnelClosed(p) /\ ~Stored(p)
  BY NoMessage DEF TunnelClosed, Stored, In, AnswerInv, Answered
<1>3. /\ ~Serve(p) /\ ~ConnectFails(p) /\ ~FetchWhole(p) /\ ~FetchPart(p)
      /\ ~FetchHeadless(p) /\ ~ChunksEnd(p) /\ ~ChunksCut(p) /\ ~Updated(p)
  <2>1. \A kind, ver : ~(Send(p, kind, ver) /\ In(p, Silent \cup {"chunks"}))
    BY SentSomething
  <2> QED
    BY <2>1 DEF Serve, ConnectFails, SendError, FetchWhole, FetchPart, FetchHeadless,
                ChunksEnd,
                ChunksCut, Updated, In, Silent
<1>4. /\ ~InCache(p) /\ ~OriginAnswers(p) /\ ~Expired(p) /\ ~Fresh(p) /\ ~LookupFound(p)
      /\ ~ConnectFetch(p) /\ ~ConnectValidate(p)
  BY DEF InCache, own, OriginAnswers, Answer, Expired, Fresh, LookupFound, ConnectFetch,
         ConnectValidate, In, RequestKnown, Known, Fields
<1>5. /\ ~LookupMissed(p) /\ ~MustValidate(p) /\ ~ConnectTunnel(p) /\ ~FetchChunked(p)
      /\ ~ValidateOK(p)
  BY GotoLocals DEF LookupMissed, MustValidate, ConnectTunnel, FetchChunked, ValidateOK, In
<1>6. FetchFails(p) \/ ValidateNotModified(p) \/ ValidateOther(p) \/ ValidateFails(p)
  BY <1>1, <1>2, <1>3, <1>4, <1>5 DEF Run
<1> QED
  BY <1>6 DEF FetchFails, ValidateNotModified, ValidateOther, ValidateFails

(* Whatever clients, origins and the cache do, a client whose request was    *)
(* parsed is left without any answer only by a validation or by a connection *)
(* that fails under the request or before the answer.                        *)
THEOREM SilenceMeansFailure == ProxySpec => SilentOnlyOnFailure
<1> DEFINE Excused(p) ==
               In(p, {"done"})' /\ ~In(p, {"done"}) /\ thread[p].req # NULL /\ reply'[p] = << >>
               => In(p, {"validate"}) \/ Arrived(p, {"reset", "unsent"})
<1>1. RequestKnown /\ IInv /\ AnswerInv /\ [ProxyNext]_proxyVars
        => [\A p \in Threads : Excused(p)]_proxyVars
  <2> SUFFICES ASSUME RequestKnown, IInv, AnswerInv, ProxyNext, NEW p \in Threads
               PROVE  Excused(p)
    OBVIOUS
  <2>1. ASSUME NEW q \in Threads,
               Arrive(q) \/ Run(q) \/ OriginAnswers(q) \/ TunnelClosed(q)
        PROVE  Excused(p)
    <3>1. CASE q = p
      BY <2>1, <3>1, SilentOwn
    <3>2. CASE q # p
      <4>1. thread'[p] = thread[p]
        BY <2>1, <3>2, OthersStay
      <4> QED  BY <4>1 DEF In
    <3> QED  BY <3>1, <3>2
  <2>2. CASE UNCHANGED own
    BY <2>2 DEF own, In
  <2>3. (\E u \in Urls : Change(u)) \/ AllDone => UNCHANGED own
    BY DEF Change, AllDone, proxyVars
  <2> HIDE DEF Excused
  <2> QED  BY <2>1, <2>2, <2>3, Zenon DEF ProxyNext
<1>2. ProxySpec => []RequestKnown
  BY InitKnown, ProxyStep, PTL DEF ProxySpec
<1>3. ProxySpec => []IInv
  BY ProxyUsesCache, Invariance, PTL
<1> QED
  BY <1>1, <1>2, <1>3, AnswerAlways, PTL DEF ProxySpec, SilentOnlyOnFailure

-----------------------------------------------------------------------------
(* What is served was judged, if it is still there: StableMeansJudged.       *)

Under(u, r) == map[u] # NULL /\ entry[map[u]].resp = r

(* A thread holds a response on its way from get to the verdict.             *)
Sees(p, r) ==
    \/ In(p, {"judge", "fresh"}) /\ thread[p].held = r
    \/ In(p, {"lookup"}) /\ call[p].at = "idle" /\ call[p].ret = r

(* A response that a put is still to place has not been found by anybody.    *)
Unplaced(r) ==
    /\ \A e \in Entries : entry[e].resp # r
    /\ \A p \in Threads : ~Sees(p, r)

(* If what get returned is under the url now, checkExpire comes to it.       *)
Judged(p) ==
    LET u == Key(thread[p].req) IN
    /\ In(p, {"judge"}) =>
          /\ call[p].at \in {"expire", "expireRead", "idle", "crashed"}
          /\ call[p].at # "idle" => call[p].url = u
          /\ call[p].at = "expireRead" /\ Under(u, thread[p].held) => call[p].it = map[u]
          /\ call[p].at = "idle" /\ call[p].ret # NULL /\ Under(u, thread[p].held) =>
                call[p].ret = thread[p].held
    /\ In(p, {"fresh"}) /\ Under(u, thread[p].held) => thread[p].judged = thread[p].held

(* On the way from the call of checkExpire, which has found nothing yet.      *)
Early(p) ==
    /\ In(p, {"judge"})
    /\ call[p].at \in {"expire", "crashed"} \/ (call[p].at = "idle" /\ call[p].ret = NULL)

(* A put that has its entry in the list and is to enter it into the map: who  *)
(* has found the new response there already (get, in memory that it took for  *)
(* its entry) has not come further than to the call of checkExpire.           *)
Foreseen(t) ==
    At(t, "putKey") =>
        \A p \in Threads :
            /\ In(p, {"judge", "fresh"}) /\ Key(thread[p].req) = call[t].url
            /\ thread[p].held = call[t].val
            => Early(p)

\* The places of a put at which its response is in the list.
Placed == {"putKey", "putLink"}

JudgeInv ==
    /\ \A t \in Threads : call[t].val # NULL /\ call[t].at \notin Placed => Unplaced(call[t].val)
    /\ \A t \in Threads : Foreseen(t)
    /\ \A p \in Threads : Judged(p)

(* Only a put brings a response under a url, and only the one it was given.  *)
LEMMA UnderStep ==
    ASSUME IInv, [Next]_vars, NEW u \in Urls, NEW r,
           \A t \in Threads : call[t].val # NULL /\ call[t].at \notin Placed => call[t].val # r,
           \A t \in Threads : ~(At(t, "putKey") /\ call[t].url = u /\ call[t].val = r),
           Under(u, r)'
    PROVE  Under(u, r) /\ map'[u] = map[u]
<1>1. CASE UNCHANGED <<map, entry>>
  BY <1>1 DEF Under
<1>2. ASSUME NEW t \in Threads, PutUpdate(t)
      PROVE  Under(u, r) /\ map'[u] = map[u]
  <2>1. call[t].val # r /\ call[t].it \in Entries /\ map[u] \in Entries \cup {NULL}
    BY <1>2 DEF PutUpdate, At, Holding, Placed, IInv, TypeOK, CallsAgree
  <2>2. map' = map /\ \A e \in Entries : entry'[e].resp =
                          IF e = call[t].it THEN call[t].val ELSE entry[e].resp
    BY <1>2, <2>1 DEF PutUpdate, Store, IInv, TypeOK
  <2> QED  BY <2>1, <2>2 DEF Under
<1>3. ASSUME NEW t \in Threads, PutInsert(t)
      PROVE  Under(u, r) /\ map'[u] = map[u]
  <2>1. PICK e \in Entries \ Range(respList) :
            entry' = [entry EXCEPT ![e] = [url |-> call[t].url, resp |-> call[t].val]]
    BY <1>3 DEF PutInsert
  <2>2. map' = map /\ \A f \in Entries \ {e} : entry'[f] = entry[f]
    BY <1>3, <2>1 DEF PutInsert, IInv, TypeOK
  <2>3. map[u] # NULL => map[u] \in Entries \ {e}
    BY <2>1 DEF IInv, ListMapAgree, TypeOK
  <2> QED  BY <2>2, <2>3 DEF Under
<1>4. ASSUME NEW t \in Threads, PutEvict(t)
      PROVE  Under(u, r) /\ map'[u] = map[u]
  BY <1>4 DEF PutEvict, Erase, Under, IInv, TypeOK
<1>key. ASSUME NEW t \in Threads, PutKey(t)
        PROVE  Under(u, r) /\ map'[u] = map[u]
  <2>at. call[t].at = "putKey" /\ CallsAgree
    BY <1>key DEF PutKey, At, IInv
  <2>rec. entry[call[t].it] = [url |-> call[t].url, resp |-> call[t].val]
    BY <2>at DEF CallsAgree
  <2>url. call[t].url \in Urls
    BY <2>at DEF CallsAgree, At
  <2>1. entry[call[t].it].resp = call[t].val /\ call[t].url \in Urls
    BY <2>rec, <2>url
  <2>2. entry' = entry /\ map'[u] = IF u = call[t].url THEN call[t].it ELSE map[u]
    BY <1>key DEF PutKey, IInv, TypeOK
  <2>3. ~(call[t].url = u /\ call[t].val = r)
    BY <1>key DEF PutKey
  <2> QED  BY <2>1, <2>2, <2>3 DEF Under
<1>5. ASSUME NEW t \in Threads, Step(t)
      PROVE  Under(u, r) /\ map'[u] = map[u]
  <2>1. UNCHANGED <<map, entry>> \/ PutUpdate(t) \/ PutInsert(t) \/ PutEvict(t) \/ PutKey(t)
    BY <1>5 DEF Step, GetMiss, GetHit, GetRead, PutFound, PutMiss, PutPop, PutLink,
                ExpireFind, ExpireMiss, ExpireRead, ReadCrashes
  <2> QED  BY <1>1, <1>2, <1>3, <1>4, <1>key, <2>1
<1>6. ASSUME NEW t \in Threads, Calls(t)
      PROVE  UNCHANGED <<map, entry>>
  BY <1>6 DEF Calls, GetCall, ExpireCall, PutCall
<1> QED
  BY <1>1, <1>5, <1>6 DEF Next, Running, Dead, vars

(* What a put is to place is what it was given, and in no entry before.      *)
LEMMA PendingStep ==
    ASSUME IInv, EveryEntryGiven, [Next]_vars,
           \A t \in Threads : call[t].val # NULL /\ call[t].at \notin Placed =>
               \A e \in Entries : entry[e].resp # call[t].val,
           NEW t \in Threads, call'[t].val # NULL, call'[t].at \notin Placed
    PROVE  /\ \/ call'[t].val = call[t].val /\ call[t].at \notin Placed
              \/ call'[t].val \in Responses /\ life[call'[t].val] = "new"
           /\ \A e \in Entries : entry'[e].resp # call'[t].val
<1>type. /\ call \in [Threads -> CallRecord]
         /\ entry \in [Entries -> [url : Urls \cup {NULL}, resp : Responses \cup {NULL}]]
  BY DEF IInv, TypeOK
<1>1. CASE UNCHANGED <<call, entry>>
  BY <1>1
<1>2. ASSUME NEW s \in Threads, Calls(s)
      PROVE  /\ \/ call'[t].val = call[t].val /\ call[t].at \notin Placed
                \/ call'[t].val \in Responses /\ life[call'[t].val] = "new"
             /\ UNCHANGED entry
  <2>1. CASE \E u \in Urls : GetCall(s, u) \/ ExpireCall(s, u)
    BY <2>1, <1>type DEF GetCall, ExpireCall, Call, Frame
  <2>2. CASE \E u \in Urls, r \in Responses : PutCall(s, u, r)
    BY <2>2, <1>type DEF PutCall, Call, Frame
  <2> QED  BY <1>2, <2>1, <2>2 DEF Calls
<1>3. ASSUME NEW s \in Threads, Step(s)
      PROVE  /\ call'[t].val = call[t].val /\ call[t].at \notin Placed
             /\ \A e \in Entries :
                   \/ entry'[e].resp = entry[e].resp
                   \/ entry'[e].resp = call[s].val /\ call[s].val # NULL /\ s # t
  <2>0. s # t => call'[t] = call[t]
    BY <1>3, OneCall
  <2>1. ASSUME NEW v, Return(s, v)
        PROVE  s # t
    BY <2>1, <1>type DEF Return, Idle, Frame
  <2>2. ASSUME NEW place \in Placed, NEW e, NEW v, Move(s, place, e, v)
        PROVE  s # t
    BY <2>2, <1>type DEF Move, Frame
  <2>3. CASE PutUpdate(s) \/ PutInsert(s) \/ PutKey(s) \/ PutLink(s)
    <3>1. s # t /\ call'[t] = call[t]
      BY <2>0, <2>1, <2>2, <2>3 DEF PutUpdate, PutInsert, PutKey, PutLink, Placed
    <3>2. call[s].val # NULL
      BY <2>3 DEF PutUpdate, PutInsert, PutKey, PutLink, At, Holding, IInv, CallsAgree
    <3>3. UNCHANGED entry \/ \A e \in Entries : entry'[e].resp \in {entry[e].resp, call[s].val}
      BY <2>3, <1>type DEF PutUpdate, PutInsert, PutKey, PutLink, Store
    <3> QED  BY <3>1, <3>2, <3>3
  <2>4. CASE ~(PutUpdate(s) \/ PutInsert(s) \/ PutKey(s) \/ PutLink(s))
    <3>1. UNCHANGED entry /\ call[s].at \notin Placed
      BY <1>3, <2>4 DEF Step, GetMiss, GetHit, GetRead, PutFound, PutEvict, PutMiss, PutPop,
                        ExpireFind, ExpireMiss, ExpireRead, ReadCrashes, At, Placed
    <3>2. \/ \E v : Return(s, v)
          \/ \E place, e, v : Move(s, place, e, v)
          \/ Crash(s)
      BY <1>3, <2>4 DEF Step, GetMiss, GetHit, GetRead, ReadEntry, PutFound, PutEvict,
                        PutMiss, PutPop, ExpireFind, ExpireMiss, ExpireRead, ReadCrashes
    <3>3. s = t => call'[t].val = call[t].val
      <4>1. CASE \E v : Return(s, v)
        BY <2>1, <4>1
      <4>2. CASE \E place, e, v : Move(s, place, e, v)
        BY <4>2, <1>type DEF Move, Frame
      <4>3. CASE Crash(s)
        BY <4>3, <1>type DEF Crash, CallRecord
      <4> QED  BY <3>2, <4>1, <4>2, <4>3
    <3> QED  BY <2>0, <3>1, <3>3
  <2> QED  BY <2>3, <2>4
<1>4. ASSUME NEW s \in Threads, Calls(s)
      PROVE  \A e \in Entries : entry'[e].resp # call'[t].val
  <2>1. \A e \in Entries : entry'[e].resp = entry[e].resp
    BY <1>2, <1>4
  <2> QED  BY <1>2, <1>4, <2>1 DEF EveryEntryGiven
<1>5. ASSUME NEW s \in Threads, Step(s)
      PROVE  \A e \in Entries : entry'[e].resp # call'[t].val
  <2>1. call'[t].val = call[t].val /\ call[t].at \notin Placed
    BY <1>3, <1>5
  <2>2. call[s].val # NULL /\ s # t => call[s].val # call[t].val
    BY <2>1 DEF IInv, OneOwner
  <2> QED  BY <1>3, <1>5, <2>1, <2>2
<1> QED
  BY <1>1, <1>2, <1>3, <1>4, <1>5 DEF Next, Running, Dead, vars

(* The actions after which a thread is between the lookup and the verdict.   *)
LEMMA OnlySeeking ==
    ASSUME RequestKnown, NEW p \in Threads,
           Arrive(p) \/ Run(p) \/ OriginAnswers(p) \/ TunnelClosed(p),
           In(p, {"lookup", "judge", "fresh"})'
    PROVE  \/ InCache(p) \/ LookupFound(p) \/ Fresh(p)
           \/ \E q \in Requests : Accept(p, q)
<1>1. ~Exit(p) /\ ~Goto(p, "store")
  BY ExitLocals, GotoLocals DEF In
<1>2. ~Expired(p) /\ ~MustValidate(p) /\ ~ConnectValidate(p)
  BY DEF Expired, MustValidate, ConnectValidate, Goto, In, RequestKnown, Known, Fields
<1>3. /\ ~LookupMissed(p) /\ ~ConnectFetch(p) /\ ~ConnectTunnel(p) /\ ~FetchChunked(p)
      /\ ~ValidateOK(p)
  BY DEF LookupMissed, ConnectFetch, ConnectTunnel, FetchChunked, ValidateOK,
         Goto, In, RequestKnown, Known, Fields
<1>4. ~FetchWhole(p) /\ ~ChunksEnd(p)
  BY <1>1 DEF FetchWhole, ChunksEnd, Keep
<1>5. /\ ~Serve(p) /\ ~ConnectFails(p) /\ ~FetchPart(p) /\ ~FetchHeadless(p)
      /\ ~FetchFails(p) /\ ~ChunksCut(p) /\ ~ValidateNotModified(p)
      /\ ~ValidateOther(p) /\ ~ValidateFails(p) /\ ~Stored(p) /\ ~Updated(p)
      /\ ~TunnelClosed(p) /\ ~AcceptMalformed(p) /\ ~AcceptFails(p)
  BY <1>1 DEF Serve, ConnectFails, FetchPart, FetchHeadless, FetchFails,
              ChunksCut, ValidateNotModified, ValidateOther, ValidateFails,
              Stored, Updated, TunnelClosed, AcceptMalformed, AcceptFails
<1>6. ~OriginAnswers(p)
  BY DEF OriginAnswers, Answer, In, RequestKnown, Known, Fields
<1> QED  BY <1>2, <1>3, <1>4, <1>5, <1>6 DEF Run, Arrive

(* A thread gets hold of a response only by reading an entry.                *)
LEMMA SeesStep ==
    ASSUME RequestKnown, IInv, NEW p \in Threads, Asked(p),
           Arrive(p) \/ Run(p) \/ OriginAnswers(p) \/ TunnelClosed(p),
           NEW r \in Responses, Sees(p, r)'
    PROVE  Sees(p, r) \/ \E e \in Entries : entry[e].resp = r
<1> DEFINE Seeking == {"lookup", "judge", "fresh"}
<1>0. In(p, Seeking)'
  BY DEF Sees, In
<1>1. CASE InCache(p)
  <2>1. thread' = thread /\ Step(p)
    BY <1>1 DEF InCache, own
  <2>2. CASE ~In(p, {"lookup"})
    BY <2>1, <2>2 DEF Sees, In
  <2>3. CASE In(p, {"lookup"})
    <3>1. call[p].at \in {"get", "getRead"}
      BY <2>1, <2>3 DEF Asked, Step, At, GetMiss, GetHit, GetRead, PutFound, PutUpdate,
                        PutEvict, PutMiss, PutPop, PutInsert, PutKey, PutLink, ExpireFind,
                        ExpireMiss, ExpireRead, ReadCrashes
    <3>2. GetMiss(p) \/ GetHit(p) \/ GetRead(p) \/ ReadCrashes(p)
      BY <2>1, <3>1 DEF Step, At, PutFound, PutUpdate, PutEvict, PutMiss, PutPop,
                        PutInsert, PutKey, PutLink,
                        ExpireFind, ExpireMiss, ExpireRead, ReadCrashes
    <3>3. CASE GetMiss(p)
      BY <2>1, <2>3, <3>3, NullAssumption
      DEF GetMiss, Return, Idle, Frame, Sees, In, IInv, TypeOK
    <3>4. CASE GetHit(p)
      BY <2>1, <2>3, <3>4 DEF GetHit, Move, Frame, Sees, In, IInv, TypeOK
    <3>5. CASE GetRead(p)
      <4>1. PICK v \in Loaded(call[p].it) : Return(p, v)
        BY <3>5 DEF GetRead, ReadEntry
      <4>2. call[p].it \in Entries
        BY <3>5 DEF GetRead, At, IInv, CallsAgree
      <4>3. call'[p].ret = v
        BY <4>1 DEF Return, Idle, Frame, IInv, TypeOK
      <4>4. v = r
        BY <2>1, <2>3, <4>3 DEF Sees, In
      <4>5. r # Wild
        BY NullAssumption
      <4> QED  BY <4>1, <4>2, <4>4, <4>5 DEF Loaded
    <3>6. CASE ReadCrashes(p)
      <4>1. call'[p].at = "crashed"
        BY <3>6 DEF ReadCrashes, Crash, IInv, TypeOK
      <4> QED  BY <2>1, <2>3, <4>1 DEF Sees, In
    <3> QED  BY <3>2, <3>3, <3>4, <3>5, <3>6
  <2> QED  BY <2>2, <2>3
<1>2. CASE LookupFound(p)
  <2>1. /\ thread'[p].pc = "judge" /\ thread'[p].held = call[p].ret
        /\ In(p, {"lookup"}) /\ call[p].at = "idle"
    BY <1>2 DEF LookupFound, In, At, RequestKnown, Known, Fields
  <2> QED  BY <2>1 DEF Sees, In
<1>3. CASE Fresh(p)
  <2>1. /\ thread'[p].pc = "fresh" /\ thread'[p].held = thread[p].held /\ In(p, {"judge"})
    BY <1>3 DEF Fresh, In, RequestKnown, Known, Fields
  <2> QED  BY <2>1 DEF Sees, In
<1>4. ASSUME NEW q \in Requests, Accept(p, q)
      PROVE  ~Sees(p, r)'
  <2>1. \/ thread'[p].pc = "lookup" /\ GetCall(p, Key(q))
        \/ thread'[p].pc \in {"connect", "done"}
    BY <1>4 DEF Accept, Begin, RequestKnown, Known, Fields
  <2>2. GetCall(p, Key(q)) => call'[p].at = "get"
    BY DEF GetCall, Call, Frame, IInv, TypeOK
  <2> QED  BY <2>1, <2>2 DEF Sees, In
<1>5. InCache(p) \/ LookupFound(p) \/ Fresh(p) \/ \E q \in Requests : Accept(p, q)
  BY <1>0, OnlySeeking
<1> QED  BY <1>1, <1>2, <1>3, <1>4, <1>5

(* No step brings a response that a thread has found under the url it is     *)
(* about to judge or serve, unless the thread has yet to come to it.         *)
NoneReturns ==
    \A p \in Threads :
        LET u == Key(thread[p].req)
            r == thread[p].held IN
        In(p, {"judge", "fresh"}) /\ map'[u] # NULL /\ entry'[map'[u]].resp = r =>
            \/ Under(u, r) /\ map'[u] = map[u]
            \/ Early(p)

LEMMA JudgedStays ==
    ASSUME NoneReturns, NEW q \in Threads, Judged(q),
           thread'[q] = thread[q], call'[q] = call[q]
    PROVE  Judged(q)'
<1>1. CASE Early(q)
  BY <1>1 DEF Judged, Early, In
<1>2. CASE ~Early(q)
  BY <1>2 DEF Judged, NoneReturns, In, Under
<1> QED  BY <1>1, <1>2

(* A thread's call goes on inside the cache, or a new one begins.             *)
LEMMA OwnCall ==
    ASSUME IInv, NEW p \in Threads,
           Arrive(p) \/ Run(p) \/ OriginAnswers(p) \/ TunnelClosed(p)
    PROVE  call'[p] = call[p] \/ call'[p].at \in {"get", "put", "expire"} \/ InCache(p)
<1>call. call \in [Threads -> CallRecord]
  BY DEF IInv, TypeOK
<1>1. CASE UNCHANGED vars
  BY <1>1 DEF vars
<1>2. ASSUME NEW u, GetCall(p, u) \/ ExpireCall(p, u) \/ PutCall(p, u, p)
      PROVE  call'[p].at \in {"get", "put", "expire"}
  BY <1>call, <1>2 DEF GetCall, ExpireCall, PutCall, Call, Frame
<1>3. CASE Arrive(p) \/ OriginAnswers(p) \/ TunnelClosed(p)
  BY <1>1, <1>2, <1>3 DEF Arrive, Accept, AcceptMalformed, AcceptFails, OriginAnswers,
                          Answer,
                          TunnelClosed
<1>4. CASE LookupFound(p) \/ FetchWhole(p) \/ ChunksEnd(p) \/ ValidateOK(p)
  BY <1>1, <1>2, <1>4 DEF LookupFound, FetchWhole, ChunksEnd, ValidateOK, Keep
<1>5. CASE \/ LookupMissed(p) \/ Expired(p) \/ Fresh(p)
           \/ MustValidate(p) \/ Serve(p) \/ ConnectFails(p) \/ ConnectFetch(p)
           \/ ConnectValidate(p) \/ ConnectTunnel(p) \/ FetchPart(p) \/ FetchHeadless(p)
           \/ FetchFails(p) \/ FetchChunked(p) \/ ChunksCut(p) \/ ValidateNotModified(p)
           \/ ValidateOther(p) \/ ValidateFails(p) \/ Stored(p) \/ Updated(p)
  BY <1>1, <1>5 DEF LookupMissed, Expired, Fresh, MustValidate, Serve,
                    ConnectFails, ConnectFetch, ConnectValidate, ConnectTunnel, FetchPart,
                    FetchHeadless, FetchFails, FetchChunked, ChunksCut, ValidateNotModified,
                    ValidateOther, ValidateFails, Stored, Updated
<1> QED  BY <1>3, <1>4, <1>5 DEF Run

(* The new entry is put in the list by emplace_front.                         *)
LEMMA KeyStep ==
    ASSUME IInv, NEW p \in Threads, Step(p), At(p, "putKey")'
    PROVE  /\ call[p].at = "putInsert" /\ call[p].val # NULL
           /\ call'[p].val = call[p].val
<1>call. call \in [Threads -> CallRecord]
  BY DEF IInv, TypeOK
<1>1. ASSUME NEW v PROVE ~Return(p, v)
  BY <1>call DEF Return, Idle, Frame, At
<1>2. ASSUME NEW place, NEW e, NEW v, place # "putKey" PROVE ~Move(p, place, e, v)
  BY <1>2, <1>call DEF Move, Frame, At
<1>3. ~Crash(p)
  BY <1>call DEF Crash, CallRecord, At
<1>4. PutInsert(p)
  BY <1>1, <1>2, <1>3 DEF Step, GetMiss, GetHit, GetRead, ReadEntry, PutFound, PutUpdate,
                          PutEvict,
         PutPop, PutMiss, PutKey, PutLink, ExpireFind, ExpireMiss, ExpireRead, ReadCrashes
<1>5. call[p].at = "putInsert" /\ \E e, v : Move(p, "putKey", e, v)
  BY <1>4 DEF PutInsert, At
<1>6. call[p].val # NULL
  BY <1>5 DEF Holding, IInv, CallsAgree
<1> QED  BY <1>5, <1>6, <1>call DEF Move, Frame

(* A thread cannot find a key that is not in the map yet.                     *)
LEMMA ForeseenStep ==
    ASSUME RequestKnown, IInv, NullAssumption, JudgeInv, NEW p \in Threads,
           Arrive(p) \/ Run(p) \/ OriginAnswers(p) \/ TunnelClosed(p), NEW t \in Threads
    PROVE  Foreseen(t)'
<1> SUFFICES ASSUME At(t, "putKey")', NEW q \in Threads, In(q, {"judge", "fresh"})',
                    Key(thread'[q].req) = call'[t].url, thread'[q].held = call'[t].val
             PROVE  Early(q)'
  BY DEF Foreseen, Key, In
<1>call. call \in [Threads -> CallRecord]
  BY DEF IInv, TypeOK
<1>1. CASE call'[t] = call[t]
  <2>1. At(t, "putKey") /\ map[call[t].url] = NULL
    BY <1>1 DEF At, IInv, CallsAgree
  <2>2. CASE q # p
    <3>1. thread'[q] = thread[q] /\ call'[q] = call[q]
      BY <2>2, OthersStay
    <3>2. Early(q)
      BY <1>1, <2>1, <3>1 DEF JudgeInv, Foreseen, In
    <3> QED  BY <3>1, <3>2 DEF Early, In
  <2>3. CASE q = p /\ InCache(p)
    <3>1. thread' = thread /\ Step(p)
      BY <2>3 DEF InCache, own
    <3>0. In(p, {"judge"}) /\ Key(thread[p].req) = call[t].url
      BY <1>1, <2>3, <3>1 DEF InCache, In
    <3>2. call[p].at # "idle" => call[p].url = call[t].url
      BY <3>0 DEF JudgeInv, Judged
    <3>3. Early(p)
      BY <1>1, <2>1, <2>3, <3>1 DEF JudgeInv, Foreseen, In
    <3>at. call[p].at \in {"expire", "crashed"} \/ (call[p].at = "idle" /\ call[p].ret = NULL)
      BY <3>3 DEF Early
    <3>find. ~ExpireFind(p)
      BY <2>1, <3>2 DEF ExpireFind, At
    <3>get. ~GetMiss(p) /\ ~GetHit(p) /\ ~GetRead(p) /\ ~ExpireRead(p)
      BY <3>at DEF GetMiss, GetHit, GetRead, ExpireRead, At
    <3>put. ~PutFound(p) /\ ~PutUpdate(p) /\ ~PutEvict(p) /\ ~PutPop(p) /\ ~PutMiss(p)
      BY <3>at DEF PutFound, PutUpdate, PutEvict, PutPop, PutMiss, At
    <3>end. ~PutInsert(p) /\ ~PutKey(p) /\ ~PutLink(p)
      BY <3>at DEF PutInsert, PutKey, PutLink, At
    <3>4. ExpireMiss(p) \/ ReadCrashes(p)
      BY <3>1, <3>find, <3>get, <3>put, <3>end DEF Step
    <3>5. call'[p].at = "crashed" \/ (call'[p].at = "idle" /\ call'[p].ret = NULL)
      BY <1>call, <3>4 DEF ExpireMiss, ReadCrashes, Crash, CallRecord, Return, Idle, Frame
    <3> QED  BY <2>3, <3>1, <3>3, <3>5 DEF Early, In
  <2>4. CASE q = p /\ LookupFound(p)
    <3>1. thread'[p].pc = "judge" /\ ExpireCall(p, Key(thread[p].req))
      BY <2>4 DEF LookupFound, RequestKnown, Known, Fields
    <3> QED  BY <1>call, <2>4, <3>1 DEF ExpireCall, Call, Frame, Early, In
  <2>5. CASE q = p /\ Fresh(p)
    <3>1. /\ thread'[p].req = thread[p].req /\ thread'[p].held = thread[p].held
          /\ In(p, {"judge"}) /\ call[p].at = "idle" /\ call[p].ret # NULL
      BY <2>5 DEF Fresh, At, RequestKnown, Known, Fields
    <3>2. Early(p)
      BY <1>1, <2>1, <2>5, <3>1 DEF JudgeInv, Foreseen, In
    <3> QED  BY <3>1, <3>2 DEF Early
  <2>6. CASE q = p /\ \E r \in Requests : Accept(p, r)
    BY <2>6 DEF Accept, Begin, In, RequestKnown, Known, Fields
  <2> QED  BY <2>2, <2>3, <2>4, <2>5, <2>6, OnlySeeking DEF In
<1>2. CASE call'[t] # call[t]
  <2>1. t = p
    BY <1>2, OthersStay
  <2>2. InCache(p)
    BY <1>2, <2>1, OwnCall DEF At
  <2>3. thread' = thread /\ Step(p)
    BY <2>2 DEF InCache, own
  <2>4. call[p].val # NULL /\ call[p].at \notin Placed /\ call'[p].val = call[p].val
    BY <2>1, <2>3, KeyStep DEF Placed
  <2>5. ~Sees(q, call[p].val)
    BY <2>4 DEF JudgeInv, Unplaced
  <2> QED  BY <2>1, <2>3, <2>4, <2>5 DEF Sees, In
<1> QED  BY <1>1, <1>2

(* A step of the thread itself leaves the entries alone while it judges.     *)
LEMMA JudgedOwn ==
    ASSUME RequestKnown, IInv, NullAssumption, NEW p \in Threads, Judged(p),
           Arrive(p) \/ Run(p) \/ OriginAnswers(p) \/ TunnelClosed(p)
    PROVE  Judged(p)'
<1>0. CASE ~In(p, {"judge", "fresh"})'
  BY <1>0 DEF Judged, In
<1>call. call \in [Threads -> CallRecord]
  BY DEF IInv, TypeOK
<1>1. CASE InCache(p) /\ In(p, {"judge"})
  <2> DEFINE u == Key(thread[p].req)
             r == thread[p].held
  <2>1. thread' = thread /\ Step(p)
    BY <1>1 DEF InCache, own
  <2>2. call[p].at \in {"expire", "expireRead", "idle", "crashed"} /\ (call[p].at # "idle" => call[p].url = u)
    BY <1>1 DEF Judged
  <2>3. ExpireFind(p) \/ ExpireMiss(p) \/ ExpireRead(p) \/ ReadCrashes(p)
    BY <2>1, <2>2 DEF Step, At, GetMiss, GetHit, GetRead, PutFound, PutUpdate, PutEvict,
                      PutMiss, PutPop, PutInsert, PutKey, PutLink
  <2>4. UNCHANGED <<map, entry>> /\ call[p].url = u
    BY <2>2, <2>3 DEF ExpireFind, ExpireMiss, ExpireRead, ReadCrashes, At
  <2>5. CASE ExpireFind(p)
    <3>1. call'[p].at = "expireRead" /\ call'[p].url = u /\ call'[p].it = map[u]
      BY <1>call, <2>4, <2>5 DEF ExpireFind, Move, Frame
    <3> QED  BY <1>1, <2>1, <2>4, <3>1 DEF Judged, In, Under
  <2>6. CASE ExpireMiss(p)
    <3>1. call'[p].at = "idle" /\ call'[p].ret = NULL
      BY <1>call, <2>6 DEF ExpireMiss, Return, Idle, Frame
    <3> QED  BY <1>1, <2>1, <3>1 DEF Judged, In
  <2>7. CASE ExpireRead(p)
    <3>1. PICK v \in Loaded(call[p].it) : Return(p, v)
      BY <2>7 DEF ExpireRead, ReadEntry
    <3>2. call'[p].at = "idle" /\ call'[p].ret = v
      BY <1>call, <3>1 DEF Return, Idle, Frame
    <3>3. ASSUME Under(u, r)
          PROVE  v = r
      <4>1. call[p].it = map[u] /\ map[u] # NULL
        BY <1>1, <2>7, <3>3 DEF Judged, ExpireRead, At, Under
      <4>2. u \in Urls
        BY <1>1 DEF In, RequestKnown, Known, Key, Requests
      <4>3. Linked(map[u])
        BY <4>1, <4>2 DEF Linked, IInv, ListMapAgree
      <4> QED  BY <3>1, <3>3, <4>1, <4>3 DEF Loaded, Under
    <3> QED  BY <1>1, <2>1, <2>4, <3>2, <3>3 DEF Judged, In, Under
  <2>8. CASE ReadCrashes(p)
    <3>1. call'[p].at = "crashed" /\ call'[p].url = u
      BY <1>call, <2>4, <2>8 DEF ReadCrashes, Crash, CallRecord
    <3> QED  BY <1>1, <2>1, <3>1 DEF Judged, In
  <2> QED  BY <2>3, <2>5, <2>6, <2>7, <2>8
<1>2. CASE InCache(p) /\ ~In(p, {"judge"})
  BY <1>0, <1>2 DEF InCache, own, In
<1>3. CASE LookupFound(p)
  <2>1. /\ thread'[p].pc = "judge" /\ thread'[p].req = thread[p].req
        /\ ExpireCall(p, Key(thread[p].req))
    BY <1>3 DEF LookupFound, RequestKnown, Known, Fields
  <2>2. call'[p].at = "expire" /\ call'[p].url = Key(thread[p].req)
    BY <1>call, <2>1 DEF ExpireCall, Call, Frame
  <2> QED  BY <2>1, <2>2 DEF Judged, In
<1>4. CASE Fresh(p)
  <2>1. /\ thread'[p].pc = "fresh" /\ thread'[p].req = thread[p].req
        /\ thread'[p].held = thread[p].held /\ thread'[p].judged = call[p].ret
        /\ In(p, {"judge"}) /\ call[p].at = "idle" /\ call[p].ret # NULL
        /\ UNCHANGED <<map, entry>>
    BY <1>4 DEF Fresh, At, vars, RequestKnown, Known, Fields
  <2> QED  BY <2>1 DEF Judged, In, Under
<1>5. ASSUME NEW q \in Requests, Accept(p, q)
      PROVE  ~In(p, {"judge", "fresh"})'
  BY <1>5 DEF Accept, Begin, In, RequestKnown, Known, Fields
<1> QED
  BY <1>0, <1>1, <1>2, <1>3, <1>4, <1>5, OnlySeeking DEF In

LEMMA JudgeStep ==
    ASSUME RequestKnown, IInv, OKInv, AskInv, JudgeInv, [ProxyNext]_proxyVars
    PROVE  JudgeInv'
<1>1. [Next]_vars
  BY ProxyStep
<1>2. NoneReturns
  <2> SUFFICES ASSUME NEW p \in Threads, NEW u, u = Key(thread[p].req),
                      NEW r, r = thread[p].held,
                      In(p, {"judge", "fresh"}), Under(u, r)', ~Early(p)
               PROVE  Under(u, r) /\ map'[u] = map[u]
    BY DEF NoneReturns, Under
  <2>1. \A t \in Threads : call[t].val # NULL /\ call[t].at \notin Placed => call[t].val # r
    BY DEF JudgeInv, Unplaced, Sees
  <2>2. \A t \in Threads : ~(At(t, "putKey") /\ call[t].url = u /\ call[t].val = r)
    BY DEF JudgeInv, Foreseen
  <2>3. u \in Urls
    BY DEF In, RequestKnown, Known, Key, Requests
  <2> QED  BY <1>1, <2>1, <2>2, <2>3, UnderStep
<1>3. ASSUME NEW t \in Threads, call'[t].val # NULL, call'[t].at \notin Placed
      PROVE  /\ \A e \in Entries : entry'[e].resp # call'[t].val
             /\ call'[t].val \in Responses
             /\ \A p \in Threads : ~Sees(p, call'[t].val)
             /\ \A e \in Entries : entry[e].resp # call'[t].val
  <2> DEFINE r == call'[t].val
  <2>1. /\ \/ r = call[t].val /\ call[t].at \notin Placed
           \/ r \in Responses /\ life[r] = "new"
        /\ \A e \in Entries : entry'[e].resp # r
    BY <1>1, <1>3, PendingStep DEF AskInv, JudgeInv, Unplaced
  <2>2. CASE r = call[t].val /\ call[t].at \notin Placed
    BY <1>3, <2>1, <2>2 DEF JudgeInv, Unplaced, IInv, TypeOK, CallRecord
  <2>3. CASE r \in Responses /\ life[r] = "new"
    <3>1. ~Found(r) /\ r # NULL
      BY <1>3, <2>3, NullAssumption DEF Found
    <3>2. \A p \in Threads : ~Sees(p, r)
      BY <3>1 DEF AskInv, Asked, Sees, In
    <3>3. \A e \in Entries : entry[e].resp # r
      BY <2>3, <3>1 DEF AskInv, EveryEntryGiven
    <3> QED  BY <2>1, <2>3, <3>2, <3>3
  <2> QED  BY <2>1, <2>2, <2>3
<1>4. ASSUME NEW p \in Threads,
             Arrive(p) \/ Run(p) \/ OriginAnswers(p) \/ TunnelClosed(p)
      PROVE  JudgeInv'
  <2>1. ASSUME NEW q \in Threads \ {p}
        PROVE  thread'[q] = thread[q] /\ call'[q] = call[q]
    BY <1>4, <2>1, OthersStay
  <2>2. Judged(p)'
    BY <1>4, JudgedOwn, NullAssumption DEF JudgeInv
  <2>3. \A q \in Threads \ {p} : Judged(q)'
    BY <1>2, <2>1, JudgedStays DEF JudgeInv
  <2>4. ASSUME NEW t \in Threads, call'[t].val # NULL, call'[t].at \notin Placed,
               NEW q \in Threads, NEW r, r = call'[t].val
        PROVE  ~Sees(q, r)'
    <3>1. CASE q = p
      BY <1>3, <1>4, <2>4, <3>1, SeesStep DEF AskInv
    <3>2. CASE q # p
      BY <1>3, <2>1, <2>4, <3>2 DEF Sees, In
    <3> QED  BY <3>1, <3>2
  <2>5. ASSUME NEW t \in Threads, call'[t].val # NULL, call'[t].at \notin Placed,
               NEW q \in Threads
        PROVE  ~(\/ In(q, {"judge", "fresh"})' /\ thread'[q].held = call'[t].val
                 \/ In(q, {"lookup"})' /\ call'[q].at = "idle" /\ call'[q].ret = call'[t].val)
    BY <2>4, <2>5 DEF Sees
  <2>6. \A t \in Threads : Foreseen(t)'
    BY <1>4, ForeseenStep, NullAssumption
  <2> QED  BY <1>3, <2>2, <2>3, <2>5, <2>6 DEF JudgeInv, Unplaced, Sees
<1>5. CASE UNCHANGED <<vars, own>>
  BY <1>5 DEF vars, own, JudgeInv, Unplaced, Foreseen, Early, Judged, Sees, In, At, Under
<1>6. (\E u \in Urls : Change(u)) \/ AllDone \/ UNCHANGED proxyVars => UNCHANGED <<vars, own>>
  BY DEF Change, AllDone, proxyVars
<1> QED
  BY <1>4, <1>5, <1>6, Zenon DEF ProxyNext

(* A response that is served as fresh and still is under its url is the one  *)
(* that checkExpire found fresh, although get and checkExpire each look the  *)
(* url up and puts, deletions and evictions come between them.               *)
THEOREM ServedWasJudged == ProxySpec => []StableMeansJudged
<1>1. ProxyInit => JudgeInv
  BY DEF ProxyInit, Init, Idle, Frame, JudgeInv, Foreseen, At, Judged, In
<1>2. RequestKnown /\ IInv /\ OKInv /\ AskInv /\ JudgeInv /\ [ProxyNext]_proxyVars
        => JudgeInv'
  BY JudgeStep
<1>3. JudgeInv => StableMeansJudged
  BY DEF JudgeInv, Judged, StableMeansJudged, Under
<1>4. ProxySpec => []RequestKnown
  BY InitKnown, ProxyStep, PTL DEF ProxySpec
<1>5. ProxySpec => []IInv
  BY ProxyUsesCache, Invariance, PTL
<1> QED  BY <1>1, <1>2, <1>3, <1>4, <1>5, OKAlways, AskAlways, PTL DEF ProxySpec

-----------------------------------------------------------------------------
(* What get returns is of the url it was asked for: HeldIsOfUrl.             *)

OfUrl(p, r) ==
    /\ r \in Responses /\ life[r] # "new"
    /\ object[r].url = thread[p].req.url

(* From the call of get up to the validation.                                *)
Finds(p) ==
    /\ In(p, {"lookup"}) =>
          /\ call[p].at # "idle" => call[p].url = thread[p].req.url
          /\ call[p].at = "idle" /\ call[p].ret # NULL => OfUrl(p, call[p].ret)
    /\ In(p, {"judge", "fresh", "revalidate", "validate"}) => OfUrl(p, thread[p].held)

(* What a thread has found stays true while others run.                      *)
LEMMA FindsStays ==
    ASSUME IInv, LifeGoesOn, ObjectsKept, NEW q \in Threads, Finds(q),
           thread'[q] = thread[q], call'[q] = call[q]
    PROVE  Finds(q)'
<1>1. \A r : OfUrl(q, r) => OfUrl(q, r)'
  BY DEF OfUrl, LifeGoesOn, ObjectsKept
<1> QED  BY <1>1 DEF Finds, In

(* The step of the thread itself.                                            *)
LEMMA FindsOwn ==
    ASSUME RequestKnown, IInv, OKInv, GetReadsItsUrl, LifeGoesOn, ObjectsKept,
           NEW p \in Threads, Asked(p), Finds(p),
           Arrive(p) \/ Run(p) \/ OriginAnswers(p) \/ TunnelClosed(p)
    PROVE  Finds(p)'
<1> DEFINE Seeking == {"lookup", "judge", "fresh", "revalidate", "validate"}
           u == thread[p].req.url
<1>call. call \in [Threads -> CallRecord]
  BY DEF IInv, TypeOK
<1>0. CASE ~In(p, Seeking)'
  BY <1>0 DEF Finds, In
<1>1. ASSUME thread'[p].req = thread[p].req, NEW r, OfUrl(p, r)
      PROVE  OfUrl(p, r)'
  BY <1>1 DEF OfUrl, LifeGoesOn, ObjectsKept
<1>2. CASE InCache(p)
  <2>1. thread' = thread /\ Step(p)
    BY <1>2 DEF InCache, own
  <2>2. CASE ~In(p, {"lookup"})
    BY <1>1, <2>1, <2>2 DEF Finds, In
  <2>3. CASE In(p, {"lookup"})
    <3>1. call[p].at \in {"get", "getRead"} /\ call[p].url = u
      BY <2>1, <2>3 DEF Asked, Finds, Step, At, GetMiss, GetHit, GetRead, PutFound,
                        PutUpdate,
                        PutEvict, PutMiss, PutPop, PutInsert, PutKey, PutLink, ExpireFind,
                        ExpireMiss, ExpireRead, ReadCrashes
    <3>2. GetMiss(p) \/ GetHit(p) \/ GetRead(p) \/ ReadCrashes(p)
      BY <2>1, <3>1 DEF Step, At, PutFound, PutUpdate, PutEvict, PutMiss, PutPop,
                        PutInsert, PutKey, PutLink,
                        ExpireFind, ExpireMiss, ExpireRead, ReadCrashes
    <3>3. CASE GetMiss(p)
      BY <1>call, <2>1, <2>3, <3>3 DEF GetMiss, Return, Idle, Frame, Finds, In
    <3>4. CASE GetHit(p)
      <4>1. /\ call'[p].at = "getRead" /\ call'[p].url = u /\ call'[p].it = map[u]
            /\ UNCHANGED map
        BY <1>call, <3>1, <3>4 DEF GetHit, Move, Frame
      <4> QED  BY <2>1, <2>3, <4>1 DEF Finds, In
    <3>5. CASE GetRead(p)
      <4>1. PICK r \in Loaded(call[p].it) : Return(p, r)
        BY <3>5 DEF GetRead, ReadEntry
      <4>2. call[p].it \in Entries /\ map[u] = call[p].it /\ u \in Urls
        BY <3>1, <3>5 DEF GetRead, At, GetReadsItsUrl, IInv, CallsAgree
      <4>3. map[u] \in Range(respList) /\ entry[map[u]].url = u
        BY <4>2, NullAssumption DEF IInv, ListMapAgree
      <4>4. r = entry[map[u]].resp
        BY <4>1, <4>2, <4>3 DEF Loaded, Linked
      <4>5. OfUrl(p, r)
        BY <4>3, <4>4 DEF OfUrl, OKInv, ListIsOK, IInv, EntriesGiven
      <4>6. call'[p].at = "idle" /\ call'[p].ret = r
        BY <1>call, <4>1 DEF Return, Idle, Frame
      <4> QED  BY <1>1, <2>1, <2>3, <4>5, <4>6 DEF Finds, In
    <3>6. CASE ReadCrashes(p)
      <4>1. call'[p].at = "crashed" /\ call'[p].url = u
        BY <1>call, <3>1, <3>6 DEF ReadCrashes, Crash, CallRecord
      <4> QED  BY <2>1, <2>3, <4>1 DEF Finds, In
    <3> QED  BY <3>2, <3>3, <3>4, <3>5, <3>6
  <2> QED  BY <2>2, <2>3
<1>3. CASE LookupFound(p)
  <2>1. /\ thread'[p].pc = "judge" /\ thread'[p].held = call[p].ret
        /\ thread'[p].req = thread[p].req /\ In(p, {"lookup"})
        /\ call[p].at = "idle" /\ call[p].ret # NULL
    BY <1>3 DEF LookupFound, In, At, RequestKnown, Known, Fields
  <2>2. OfUrl(p, call[p].ret)
    BY <2>1 DEF Finds
  <2> QED  BY <1>1, <2>1, <2>2 DEF Finds, In
<1>4. CASE Expired(p) \/ Fresh(p) \/ MustValidate(p)
  <2>1. /\ thread'[p].pc \in {"revalidate", "fresh"} /\ thread'[p].held = thread[p].held
        /\ thread'[p].req = thread[p].req /\ In(p, {"judge", "fresh"})
    BY <1>4 DEF Expired, Fresh, MustValidate, Goto, In, RequestKnown, Known, Fields
  <2> QED  BY <1>1, <2>1 DEF Finds, In
<1>5. CASE ConnectValidate(p)
  <2>1. PICK a : thread' = [thread EXCEPT ![p].pc = "validate", ![p].ask = a]
    BY <1>5 DEF ConnectValidate
  <2>2. /\ thread'[p].pc = "validate" /\ thread'[p].held = thread[p].held
        /\ thread'[p].req = thread[p].req /\ In(p, {"revalidate"})
    BY <1>5, <2>1 DEF ConnectValidate, RequestKnown, Known, Fields
  <2> QED  BY <1>1, <2>2 DEF Finds, In
<1>6. ASSUME NEW q \in Requests, Accept(p, q)
      PROVE  Finds(p)'
  <2>1. \/ thread'[p].pc = "lookup" /\ thread'[p].req = q /\ GetCall(p, Key(q))
        \/ thread'[p].pc \in {"connect", "done"}
    BY <1>6 DEF Accept, Begin, RequestKnown, Known, Fields
  <2>2. GetCall(p, Key(q)) => call'[p].at = "get" /\ call'[p].url = q.url
    BY <1>call DEF GetCall, Call, Frame, Key
  <2> QED  BY <2>1, <2>2 DEF Finds, In
<1>7. CASE OriginAnswers(p)
  <2>1. PICK kind \in Answers : Answer(p, kind)
    BY <1>7 DEF OriginAnswers
  <2>2. /\ thread'[p].pc = thread[p].pc /\ thread'[p].held = thread[p].held
        /\ thread'[p].req = thread[p].req /\ In(p, {"fetch", "validate"})
    BY <2>1 DEF Answer, RequestKnown, Known, Fields
  <2> QED  BY <1>1, <2>2 DEF Finds, In
<1>8. CASE \/ LookupMissed(p) \/ ConnectFetch(p) \/ ConnectTunnel(p) \/ FetchChunked(p)
           \/ ValidateOK(p)
  BY <1>0, <1>8 DEF LookupMissed, ConnectFetch, ConnectTunnel, FetchChunked, ValidateOK,
                    Goto, In, RequestKnown, Known, Fields
<1>9. CASE Exit(p) \/ Goto(p, "store")
  BY <1>0, <1>9, ExitLocals, GotoLocals DEF In
<1>10. CASE FetchWhole(p) \/ ChunksEnd(p)
  BY <1>9, <1>10 DEF FetchWhole, ChunksEnd, Keep
<1>11. CASE Serve(p) \/ ConnectFails(p) \/ FetchPart(p) \/ FetchHeadless(p)
           \/ FetchFails(p) \/ ChunksCut(p) \/ ValidateNotModified(p)
           \/ ValidateOther(p) \/ ValidateFails(p) \/ Stored(p) \/ Updated(p)
           \/ TunnelClosed(p) \/ AcceptMalformed(p) \/ AcceptFails(p)
  BY <1>9, <1>11 DEF Serve, ConnectFails, FetchPart, FetchHeadless, FetchFails,
                ChunksCut, ValidateNotModified, ValidateOther, ValidateFails,
                Stored, Updated, TunnelClosed, AcceptMalformed, AcceptFails
<1> QED
  BY <1>2, <1>3, <1>4, <1>5, <1>6, <1>7, <1>8, <1>10, <1>11 DEF Run, Arrive

FindsInv == \A p \in Threads : Finds(p)

LEMMA FindsStep ==
    ASSUME RequestKnown, IInv, OKInv, AskInv, FindsInv, GetReadsItsUrl,
           [ProxyNext]_proxyVars
    PROVE  FindsInv'
<1>1. [Next]_vars
  BY ProxyStep
<1>2. LifeGoesOn
  BY <1>1, LifeStep
<1>3. ASSUME NEW p \in Threads,
             Arrive(p) \/ Run(p) \/ OriginAnswers(p) \/ TunnelClosed(p)
      PROVE  FindsInv'
  <2>1. ObjectsKept
    BY <1>3, ObjectStep
  <2>2. Finds(p)'
    BY <1>2, <1>3, <2>1, FindsOwn DEF FindsInv, AskInv
  <2>3. ASSUME NEW q \in Threads \ {p}
        PROVE  Finds(q)'
    <3>1. thread'[q] = thread[q] /\ call'[q] = call[q]
      BY <1>3, OthersStay
    <3> QED  BY <1>2, <2>1, <3>1, FindsStays DEF FindsInv
  <2> QED  BY <2>2, <2>3 DEF FindsInv
<1>4. CASE UNCHANGED <<vars, own>>
  <2>1. UNCHANGED <<thread, call, object>>
    BY <1>4 DEF vars, own
  <2>2. ObjectsKept
    BY <2>1 DEF ObjectsKept
  <2> QED  BY <1>2, <2>1, <2>2, FindsStays DEF FindsInv
<1>5. (\E u \in Urls : Change(u)) \/ AllDone \/ UNCHANGED proxyVars => UNCHANGED <<vars, own>>
  BY DEF Change, AllDone, proxyVars
<1> QED
  BY <1>3, <1>4, <1>5, Zenon DEF ProxyNext

(* An eviction between the unlock of a get and its read is all that can give *)
(* a client another url's response: while every get reads the entry that it  *)
(* found, what a thread holds from get on, through the verdict and the       *)
(* validation, answers the url its client asked for, whatever puts replace   *)
(* and delete meanwhile.                                                     *)
THEOREM HeldAnswersRequest == ProxySpec /\ []GetReadsItsUrl => []HeldIsOfUrl
<1>1. ProxyInit => FindsInv
  BY DEF ProxyInit, FindsInv, Finds, In
<1>2. RequestKnown /\ IInv /\ OKInv /\ AskInv /\ FindsInv /\ GetReadsItsUrl
        /\ [ProxyNext]_proxyVars => FindsInv'
  BY FindsStep
<1>3. FindsInv => HeldIsOfUrl
  BY DEF FindsInv, Finds, OfUrl, HeldIsOfUrl, In
<1>4. ProxySpec => []RequestKnown
  BY InitKnown, ProxyStep, PTL DEF ProxySpec
<1>5. ProxySpec => []IInv
  BY ProxyUsesCache, Invariance, PTL
<1> QED  BY <1>1, <1>2, <1>3, <1>4, <1>5, OKAlways, AskAlways, PTL DEF ProxySpec

-----------------------------------------------------------------------------
(* Types: ProxyTypeOK.                                                       *)

Wires == [kind : AnswerKinds, chunked : BOOLEAN, ver : Versions, noStore : BOOLEAN, validator : BOOLEAN]

Pointers == Responses \cup {NULL, Wild}

Locals ==
    [pc : Places, req : Requests \cup {NULL}, held : Pointers, judged : Pointers,
     ask : Versions \cup {NULL, Wild}, wire : {NULL} \cup Wires]

(* What checkExpire returns is a response; an update waits for its answer's  *)
(* bytes; a response that was handed over has been filled in.                *)
Filled(p) ==
    /\ In(p, {"judge"}) /\ At(p, "idle") => call[p].ret \in Pointers
    /\ In(p, {"judge"}) => call[p].at \in {"expire", "expireRead", "idle", "crashed"}
    /\ In(p, {"update"}) => thread[p].wire # NULL
    /\ life[p] # "new" => object[p] \in Objects

TypeInv == ProxyTypeOK /\ \A p \in Threads : Filled(p)

(* A thread's locals keep their types when one of them changes.              *)
LEMMA LocalsTyped ==
    ASSUME thread \in [Threads -> Locals], NEW p \in Threads
    PROVE  /\ Exit(p) => thread' \in [Threads -> Locals]
           /\ \A place \in Places : Goto(p, place) => thread' \in [Threads -> Locals]
           /\ \A q \in Requests, place \in Places :
                 Begin(p, q, place) => thread' \in [Threads -> Locals]
<1> DEFINE r == thread[p]
<1>0. r \in Locals
  OBVIOUS
<1>1. ASSUME Exit(p) PROVE thread' \in [Threads -> Locals]
  <2> DEFINE s == [r EXCEPT !.pc = "done", !.held = NULL, !.judged = NULL,
                            !.ask = NULL, !.wire = NULL]
  <2>1. s \in Locals
    BY <1>0 DEF Locals, Pointers, Places
  <2>2. thread' = [thread EXCEPT ![p] = s]
    BY <1>1, <1>0 DEF Exit, Locals
  <2> HIDE DEF s
  <2> QED  BY <2>1, <2>2
<1>2. ASSUME NEW place \in Places, Goto(p, place) PROVE thread' \in [Threads -> Locals]
  <2> DEFINE s == [r EXCEPT !.pc = place]
  <2>1. s \in Locals
    BY <1>0 DEF Locals
  <2>2. thread' = [thread EXCEPT ![p] = s]
    BY <1>2, <1>0 DEF Goto, Locals
  <2> HIDE DEF s
  <2> QED  BY <2>1, <2>2
<1>3. ASSUME NEW q \in Requests, NEW place \in Places, Begin(p, q, place)
      PROVE  thread' \in [Threads -> Locals]
  <2> DEFINE s == [r EXCEPT !.pc = place, !.req = q]
  <2>1. s \in Locals
    BY <1>0 DEF Locals
  <2>2. thread' = [thread EXCEPT ![p] = s]
    BY <1>3, <1>0 DEF Begin, Locals
  <2> HIDE DEF s
  <2> QED  BY <2>1, <2>2
<1> QED  BY <1>1, <1>2, <1>3

LEMMA AssignedTyped ==
    ASSUME thread \in [Threads -> Locals], NEW p \in Threads, NEW place \in Places, NEW x,
           \/ x \in Pointers /\ thread' = [thread EXCEPT ![p].pc = place, ![p].held = x]
           \/ x \in Pointers /\ thread' = [thread EXCEPT ![p].pc = place, ![p].judged = x]
           \/ x \in Versions \cup {NULL, Wild} /\ thread' = [thread EXCEPT ![p].pc = place, ![p].ask = x]
           \/ x \in Wires /\ thread' = [thread EXCEPT ![p].wire = x]
    PROVE  thread' \in [Threads -> Locals]
<1> DEFINE r == thread[p]
<1>0. r \in Locals
  OBVIOUS
<1>1. CASE x \in Pointers /\ thread' = [thread EXCEPT ![p].pc = place, ![p].held = x]
  <2> DEFINE s == [r EXCEPT !.pc = place, !.held = x]
  <2>1. s \in Locals
    BY <1>0, <1>1 DEF Locals
  <2>2. thread' = [thread EXCEPT ![p] = s]
    BY <1>1, <1>0 DEF Locals
  <2> HIDE DEF s
  <2> QED  BY <2>1, <2>2
<1>2. CASE x \in Pointers /\ thread' = [thread EXCEPT ![p].pc = place, ![p].judged = x]
  <2> DEFINE s == [r EXCEPT !.pc = place, !.judged = x]
  <2>1. s \in Locals
    BY <1>0, <1>2 DEF Locals
  <2>2. thread' = [thread EXCEPT ![p] = s]
    BY <1>2, <1>0 DEF Locals
  <2> HIDE DEF s
  <2> QED  BY <2>1, <2>2
<1>3. CASE /\ x \in Versions \cup {NULL, Wild}
           /\ thread' = [thread EXCEPT ![p].pc = place, ![p].ask = x]
  <2> DEFINE s == [r EXCEPT !.pc = place, !.ask = x]
  <2>1. s \in Locals
    BY <1>0, <1>3 DEF Locals
  <2>2. thread' = [thread EXCEPT ![p] = s]
    BY <1>3, <1>0 DEF Locals
  <2> HIDE DEF s
  <2> QED  BY <2>1, <2>2
<1>4. CASE x \in Wires /\ thread' = [thread EXCEPT ![p].wire = x]
  <2> DEFINE s == [r EXCEPT !.wire = x]
  <2>1. s \in Locals
    BY <1>0, <1>4 DEF Locals
  <2>2. thread' = [thread EXCEPT ![p] = s]
    BY <1>4, <1>0 DEF Locals
  <2> HIDE DEF s
  <2> QED  BY <2>1, <2>2
<1> QED  BY <1>1, <1>2, <1>3, <1>4

(* A message is put behind what was sent.                                    *)
LEMMA SentTyped ==
    ASSUME reply \in [Threads -> Seq(Messages)], NEW p \in Threads,
           NEW kind \in {"error", "established", "cached", "confirmed", "forwarded",
                         "part", "head", "rest"},
           NEW ver \in Versions \cup {NULL, Wild}, Send(p, kind, ver)
    PROVE  reply' \in [Threads -> Seq(Messages)]
<1> DEFINE m == [kind |-> kind, ver |-> ver]
<1>1. m \in Messages
  BY DEF Messages
<1>2. reply' = [reply EXCEPT ![p] = Append(@, m)]
  BY DEF Send
<1> HIDE DEF m
<1> QED  BY <1>1, <1>2

(* The new response is filled in.                                            *)
LEMMA ParsedTyped ==
    ASSUME thread \in [Threads -> Locals], NEW p \in Threads,
           thread[p].wire # NULL, thread[p].req \in Requests
    PROVE  Parsed(p) \in Objects
<1>1. thread[p].wire \in Wires /\ thread[p].req.url \in Urls
  BY DEF Locals, Requests
<1> QED  BY <1>1 DEF Parsed, Wires, Objects

(* What dereferencing a found response gives.                                *)
LEMMA DerefTyped ==
    ASSUME OwnResponse, NEW r, Found(r), \A p \in Threads : life[p] # "new" => object[p] \in Objects,
           NEW o \in Deref(r)
    PROVE  o.ver \in Versions \cup {NULL, Wild} /\ o.validator \in BOOLEAN
<1>1. o \in Objects \/ o = Garbage
  BY OwnResponse DEF Deref, Found
<1>2. Garbage.ver = Wild /\ Garbage.validator = FALSE
  BY DEF Garbage
<1> QED  BY <1>1, <1>2 DEF Objects

(* A step changes the thread's locals to others of their types.              *)
LEMMA ThreadStep ==
    ASSUME RequestKnown, IInv, AskInv, TypeInv, NEW p \in Threads,
           Arrive(p) \/ Run(p) \/ OriginAnswers(p) \/ TunnelClosed(p)
    PROVE  thread' \in [Threads -> Locals]
<1>0. thread \in [Threads -> Locals] /\ thread[p] \in Locals
  BY DEF TypeInv, ProxyTypeOK, Locals, Pointers, Wires
<1>1. CASE InCache(p)
  BY <1>0, <1>1 DEF InCache, own
<1>2. CASE LookupMissed(p) \/ MustValidate(p) \/ ConnectTunnel(p) \/ FetchChunked(p)
           \/ ValidateOK(p)
  <2>1. \E place \in Places : Goto(p, place)
    BY <1>2 DEF LookupMissed, MustValidate, ConnectTunnel, FetchChunked, ValidateOK, Places
  <2> QED  BY <1>0, <2>1, LocalsTyped
<1>3. CASE LookupFound(p)
  <2>1. /\ thread' = [thread EXCEPT ![p].pc = "judge", ![p].held = call[p].ret]
        /\ In(p, {"lookup"}) /\ call[p].at = "idle" /\ call[p].ret # NULL
    BY <1>3 DEF LookupFound, At
  <2>2. call[p].ret \in Pointers
    BY <2>1 DEF AskInv, Asked, Found, Pointers
  <2> QED  BY <1>0, <2>1, <2>2, AssignedTyped DEF Places
<1>4. CASE Expired(p) \/ Fresh(p)
  <2>1. call[p].ret \in Pointers
    BY <1>4 DEF Expired, Fresh, TypeInv, Filled
  <2>2. \E place \in Places :
            thread' = [thread EXCEPT ![p].pc = place, ![p].judged = call[p].ret]
    BY <1>4 DEF Expired, Fresh, Places
  <2> QED  BY <1>0, <2>1, <2>2, AssignedTyped
<1>5. CASE ConnectFetch(p)
  <2>1. thread[p].req \in Requests
    BY <1>5 DEF ConnectFetch, RequestKnown, Known, In
  <2>2. thread[p].req.cond \in Versions \cup {NULL, Wild}
    BY <2>1, OriginAssumption DEF Requests
  <2>3. thread' = [thread EXCEPT ![p].pc = "fetch", ![p].ask = thread[p].req.cond]
    BY <1>5 DEF ConnectFetch
  <2> QED  BY <1>0, <2>2, <2>3, AssignedTyped DEF Places
<1>6. CASE ConnectValidate(p)
  <2>1. PICK o \in Deref(thread[p].held) :
            thread' = [thread EXCEPT ![p].pc = "validate",
                                     ![p].ask = Validator(thread[p].req.cond, o)]
    BY <1>6 DEF ConnectValidate
  <2>2. In(p, {"revalidate"}) /\ thread[p].req \in Requests
    BY <1>6 DEF ConnectValidate, RequestKnown, Known, In
  <2>3. o.ver \in Versions \cup {NULL, Wild}
    BY <2>2, OwnResponse, DerefTyped DEF AskInv, Asked, In, TypeInv, Filled
  <2>4. Validator(thread[p].req.cond, o) \in Versions \cup {NULL, Wild}
    BY <2>2, <2>3, OriginAssumption DEF Validator, Requests
  <2> QED  BY <1>0, <2>1, <2>4, AssignedTyped DEF Places
<1>7. CASE OriginAnswers(p)
  <2>1. PICK kind \in Answers : Answer(p, kind)
    BY <1>7 DEF OriginAnswers
  <2>2. thread[p].req.url \in Urls /\ origin[thread[p].req.url] \in Versions
    BY <2>1 DEF Answer, In, RequestKnown, Known, Requests, TypeInv, ProxyTypeOK
  <2>3. \E w \in Wires : thread' = [thread EXCEPT ![p].wire = w]
    BY <2>1, <2>2, OriginAssumption DEF Answer, Wires
  <2> QED  BY <1>0, <2>3, AssignedTyped DEF Places
<1>8. ASSUME NEW q \in Requests, Accept(p, q)
      PROVE  thread' \in [Threads -> Locals]
  <2>1. \E place \in Places : Begin(p, q, place)
    BY <1>8 DEF Accept, Places
  <2> QED  BY <1>0, <2>1, LocalsTyped
<1>9. CASE Exit(p) \/ Goto(p, "store")
  BY <1>0, <1>9, LocalsTyped DEF Places
<1>10. CASE FetchWhole(p) \/ ChunksEnd(p)
  BY <1>9, <1>10 DEF FetchWhole, ChunksEnd, Keep
<1>11. CASE Serve(p) \/ ConnectFails(p) \/ FetchPart(p) \/ FetchHeadless(p)
           \/ FetchFails(p) \/ ChunksCut(p) \/ ValidateNotModified(p)
           \/ ValidateOther(p) \/ ValidateFails(p) \/ Stored(p) \/ Updated(p)
           \/ TunnelClosed(p) \/ AcceptMalformed(p) \/ AcceptFails(p)
  BY <1>9, <1>11 DEF Serve, ConnectFails, FetchPart, FetchHeadless, FetchFails,
                ChunksCut, ValidateNotModified, ValidateOther, ValidateFails,
                Stored, Updated, TunnelClosed, AcceptMalformed, AcceptFails
<1> QED
  BY <1>1, <1>2, <1>3, <1>4, <1>5, <1>6, <1>7, <1>8, <1>10, <1>11 DEF Run, Arrive

(* It sends messages,                                                        *)
LEMMA ReplyStep ==
    ASSUME RequestKnown, AskInv, TypeInv, NEW p \in Threads,
           Arrive(p) \/ Run(p) \/ OriginAnswers(p) \/ TunnelClosed(p)
    PROVE  reply' \in [Threads -> Seq(Messages)]
<1>0. reply \in [Threads -> Seq(Messages)]
  BY DEF TypeInv, ProxyTypeOK
<1>1. thread[p].wire # NULL => thread[p].wire.ver \in Versions
  BY DEF TypeInv, ProxyTypeOK
<1>2. CASE UNCHANGED reply
  BY <1>0, <1>2
<1>3. CASE SendError(p) \/ Send(p, "established", NULL)
  BY <1>0, <1>3, SentTyped DEF SendError
<1>4. CASE Serve(p) \/ ValidateNotModified(p)
  <2>1. Found(thread[p].held)
    BY <1>4 DEF Serve, ValidateNotModified, AskInv, Asked, In
  <2>2. \A o \in Deref(thread[p].held) : o.ver \in Versions \cup {NULL, Wild}
    BY <2>1, OwnResponse, DerefTyped DEF TypeInv, Filled
  <2>3. \E o \in Deref(thread[p].held), kind \in {"cached", "confirmed"} : Send(p, kind, o.ver)
    BY <1>4 DEF Serve, ValidateNotModified
  <2> QED  BY <1>0, <2>2, <2>3, SentTyped
<1>5. CASE FetchWhole(p) \/ FetchPart(p) \/ FetchChunked(p) \/ ChunksEnd(p)
           \/ ChunksCut(p) \/ ValidateOther(p) \/ Updated(p)
  <2>1. thread[p].wire # NULL
    BY <1>5 DEF FetchWhole, FetchPart, FetchChunked, ChunksEnd, ChunksCut, ValidateOther,
                Updated, Arrived, TypeInv, Filled
  <2>2. \E kind \in {"forwarded", "part", "head", "rest"} : Send(p, kind, thread[p].wire.ver)
    BY <1>5 DEF FetchWhole, FetchPart, FetchChunked, ChunksEnd, ChunksCut, ValidateOther,
                Updated
  <2> QED  BY <1>0, <1>1, <2>1, <2>2, SentTyped
<1>6. CASE OriginAnswers(p) \/ TunnelClosed(p) \/ Arrive(p)
  BY <1>2, <1>3, <1>6 DEF OriginAnswers, Answer, TunnelClosed, Arrive, Accept,
                          AcceptMalformed, AcceptFails
<1>7. CASE \/ InCache(p) \/ LookupMissed(p) \/ LookupFound(p) \/ Expired(p) \/ Fresh(p)
           \/ MustValidate(p) \/ ConnectFails(p) \/ ConnectFetch(p) \/ ConnectValidate(p)
           \/ ConnectTunnel(p) \/ FetchHeadless(p) \/ FetchFails(p) \/ ValidateOK(p)
           \/ ValidateFails(p) \/ Stored(p)
  BY <1>2, <1>3, <1>7
     DEF InCache, own, LookupMissed, LookupFound, Expired, Fresh, MustValidate,
         ConnectFails, ConnectFetch, ConnectValidate, ConnectTunnel, FetchHeadless,
         FetchFails, ValidateOK, ValidateFails, Stored
<1> QED  BY <1>4, <1>5, <1>6, <1>7 DEF Run

(* and it fills in its response before it hands it over.                     *)
LEMMA ObjectTyped ==
    ASSUME RequestKnown, IInv, IInv', OKInv, TypeInv, NEW p \in Threads,
           Arrive(p) \/ Run(p) \/ OriginAnswers(p) \/ TunnelClosed(p)
    PROVE  /\ object' \in [Threads -> Objects \cup {NULL}]
           /\ \A q \in Threads : life'[q] # "new" => object'[q] \in Objects
<1> DEFINE Typed == /\ object' \in [Threads -> Objects \cup {NULL}]
                    /\ \A q \in Threads : life'[q] # "new" => object'[q] \in Objects
<1>0. /\ object \in [Threads -> Objects \cup {NULL}]
      /\ \A q \in Threads : life[q] # "new" => object[q] \in Objects
  BY DEF TypeInv, ProxyTypeOK, Filled
<1>1. CASE UNCHANGED <<life, object>>
  BY <1>0, <1>1
<1>2. ASSUME NEW o \in Objects, object' = [object EXCEPT ![p] = o],
             \A q \in Threads \ {p} : life'[q] # "new" => life[q] # "new"
      PROVE  Typed
  BY <1>0, <1>2
<1>put. ASSUME NEW u, PutCall(p, u, p)
        PROVE  \A q \in Threads \ {p} : life'[q] # "new" => life[q] # "new"
  BY <1>put, OwnResponse DEF PutCall, IInv, TypeOK
<1>3. CASE Keep(p) /\ Arrived(p, AnswerKinds) /\ In(p, {"fetch", "chunks"})
  <2>0. thread[p].wire # NULL /\ thread[p].req \in Requests
    BY <1>3 DEF Arrived, In, RequestKnown, Known
  <2>1. Parsed(p) \in Objects
    BY <2>0, ParsedTyped DEF TypeInv, ProxyTypeOK, Locals, Pointers, Wires
  <2> DEFINE o == Parsed(p)
  <2>2. CASE UNCHANGED <<vars, object>>
    BY <1>1, <2>2 DEF vars
  <2>3. CASE object' = [object EXCEPT ![p] = o] /\ UNCHANGED vars
    BY <1>2, <2>1, <2>3 DEF vars
  <2>4. CASE object' = [object EXCEPT ![p] = o] /\ PutCall(p, Key(thread[p].req), p)
    BY <1>2, <1>put, <2>1, <2>4
  <2>5. \/ UNCHANGED <<vars, object>>
        \/ /\ object' = [object EXCEPT ![p] = o]
           /\ UNCHANGED vars \/ PutCall(p, Key(thread[p].req), p)
    <3> HIDE DEF o
    <3> QED  BY <1>3 DEF Keep, o
  <2> QED  BY <2>2, <2>3, <2>4, <2>5
<1>4. CASE ValidateOK(p)
  <2>1. Parsed(p) \in Objects
    BY <1>4, ParsedTyped DEF ValidateOK, Arrived, In, RequestKnown, Known, TypeInv,
                             ProxyTypeOK,
                             Locals, Pointers, Wires
  <2> QED  BY <1>2, <1>4, <1>put, <2>1 DEF ValidateOK
<1>5. CASE FetchPart(p) \/ ChunksCut(p) \/ ValidateNotModified(p) \/ ValidateOther(p)
           \/ ValidateFails(p)
  <2>1. /\ thread[p].wire # NULL /\ In(p, {"fetch", "chunks", "validate"})
        /\ UNCHANGED vars
        /\ UNCHANGED object \/ object' = [object EXCEPT ![p] = Parsed(p)]
    BY <1>5 DEF FetchPart, ChunksCut, ValidateNotModified, ValidateOther, ValidateFails,
                Arrived, In
  <2>2. Parsed(p) \in Objects
    BY <2>1, ParsedTyped DEF In, RequestKnown, Known, TypeInv, ProxyTypeOK,
                             Locals, Pointers, Wires
  <2> QED  BY <1>1, <1>2, <2>1, <2>2 DEF vars
<1>6. CASE FetchWhole(p) \/ ChunksEnd(p)
  BY <1>3, <1>6 DEF FetchWhole, ChunksEnd, Arrived, In, AnswerKinds, Proper
<1>7. CASE InCache(p)
  <2>1. Step(p) /\ UNCHANGED object
    BY <1>7 DEF InCache, own
  <2>2. \A q \in Threads : life'[q] # "new" => life[q] # "new"
    BY <2>1, StepEffect, OwnResponse
  <2> QED  BY <1>0, <2>1, <2>2
<1>8. CASE OriginAnswers(p) \/ TunnelClosed(p) \/ Arrive(p)
  BY <1>1, <1>8 DEF OriginAnswers, Answer, TunnelClosed, Arrive, Accept,
                    AcceptMalformed, AcceptFails, GetCall, vars
<1>9. CASE \/ LookupMissed(p) \/ LookupFound(p) \/ Expired(p) \/ Fresh(p)
           \/ MustValidate(p) \/ Serve(p) \/ ConnectFails(p) \/ ConnectFetch(p)
           \/ ConnectValidate(p) \/ ConnectTunnel(p) \/ FetchHeadless(p) \/ FetchFails(p)
           \/ FetchChunked(p) \/ Stored(p) \/ Updated(p)
  BY <1>1, <1>9 DEF LookupMissed, LookupFound, Expired, Fresh, MustValidate,
                    Serve, ConnectFails, ConnectFetch, ConnectValidate, ConnectTunnel,
                    FetchHeadless, FetchFails, FetchChunked, Stored, Updated, ExpireCall,
                    vars
<1> QED  BY <1>4, <1>5, <1>6, <1>7, <1>8, <1>9 DEF Run

(* The place a thread is in agrees with what its call gives it.              *)
LEMMA FilledOwn ==
    ASSUME RequestKnown, IInv, TypeInv, NEW p \in Threads,
           Arrive(p) \/ Run(p) \/ OriginAnswers(p) \/ TunnelClosed(p)
    PROVE  /\ In(p, {"judge"})' /\ At(p, "idle")' => call'[p].ret \in Pointers
           /\ In(p, {"judge"})' => call'[p].at \in {"expire", "expireRead", "idle", "crashed"}
           /\ In(p, {"update"})' => thread'[p].wire # NULL
<1>call. call \in [Threads -> CallRecord]
  BY DEF IInv, TypeOK
<1>1. CASE ~In(p, {"judge", "update"})'
  BY <1>1 DEF In
<1>2. CASE InCache(p)
  <2>1. thread' = thread /\ Step(p)
    BY <1>2 DEF InCache, own
  <2>2. CASE ~In(p, {"judge"})
    BY <2>1, <2>2 DEF TypeInv, Filled, In
  <2>3. CASE In(p, {"judge"})
    <3>1. ExpireFind(p) \/ ExpireMiss(p) \/ ExpireRead(p) \/ ReadCrashes(p)
      BY <2>1, <2>3 DEF TypeInv, Filled, Step, At, GetMiss, GetHit, GetRead, PutFound,
                        PutUpdate, PutEvict, PutMiss, PutPop, PutInsert, PutKey, PutLink
    <3>2. CASE ExpireFind(p)
      BY <1>call, <2>1, <2>3, <3>2 DEF ExpireFind, Move, Frame, At, In
    <3>3. CASE ExpireMiss(p)
      BY <1>call, <2>1, <2>3, <3>3 DEF ExpireMiss, Return, Idle, Frame, At, In, Pointers
    <3>4. CASE ExpireRead(p)
      <4>1. PICK r \in Loaded(call[p].it) : Return(p, r)
        BY <3>4 DEF ExpireRead, ReadEntry
      <4>2. call[p].it \in Entries
        BY <3>4 DEF ExpireRead, At, IInv, CallsAgree
      <4>3. r \in Pointers
        BY <4>1, <4>2 DEF Loaded, Pointers, IInv, TypeOK
      <4> QED  BY <1>call, <2>1, <2>3, <4>1, <4>3 DEF Return, Idle, Frame, At, In
    <3>5. CASE ReadCrashes(p)
      BY <1>call, <2>1, <2>3, <3>5 DEF ReadCrashes, Crash, CallRecord, At, In
    <3> QED  BY <3>1, <3>2, <3>3, <3>4, <3>5
  <2> QED  BY <2>2, <2>3
<1>3. CASE LookupFound(p)
  <2>1. thread'[p].pc = "judge" /\ ExpireCall(p, Key(thread[p].req))
    BY <1>3 DEF LookupFound, RequestKnown, Known, Fields
  <2> QED  BY <1>call, <2>1 DEF ExpireCall, Call, Frame, At, In
<1>4. CASE ValidateOK(p)
  <2>1. thread'[p].pc = "update" /\ thread'[p].wire = thread[p].wire /\ thread[p].wire # NULL
    BY <1>4, GotoLocals DEF ValidateOK, Arrived
  <2> QED  BY <2>1 DEF In
<1>5. CASE OriginAnswers(p)
  <2>1. thread'[p].pc = thread[p].pc /\ In(p, {"fetch", "validate"})
    BY <1>5 DEF OriginAnswers, Answer, RequestKnown, Known, Fields
  <2> QED  BY <2>1 DEF In
<1>6. CASE Expired(p) \/ Fresh(p) \/ ConnectFetch(p) \/ ConnectValidate(p)
           \/ LookupMissed(p) \/ MustValidate(p) \/ ConnectTunnel(p) \/ FetchChunked(p)
  BY <1>1, <1>6 DEF Expired, Fresh, ConnectFetch, ConnectValidate, LookupMissed,
                    MustValidate,
                    ConnectTunnel, FetchChunked, Goto, In, RequestKnown, Known, Fields
<1>7. ASSUME NEW q \in Requests, Accept(p, q)
      PROVE  ~In(p, {"judge", "update"})'
  BY <1>7 DEF Accept, Begin, In, RequestKnown, Known, Fields
<1>9. CASE Exit(p) \/ Goto(p, "store")
  BY <1>1, <1>9, ExitLocals, GotoLocals DEF In
<1>10. CASE FetchWhole(p) \/ ChunksEnd(p)
  BY <1>9, <1>10 DEF FetchWhole, ChunksEnd, Keep
<1>11. CASE Serve(p) \/ ConnectFails(p) \/ FetchPart(p) \/ FetchHeadless(p)
           \/ FetchFails(p) \/ ChunksCut(p) \/ ValidateNotModified(p)
           \/ ValidateOther(p) \/ ValidateFails(p) \/ Stored(p) \/ Updated(p)
           \/ TunnelClosed(p) \/ AcceptMalformed(p) \/ AcceptFails(p)
  BY <1>9, <1>11 DEF Serve, ConnectFails, FetchPart, FetchHeadless, FetchFails,
                ChunksCut, ValidateNotModified, ValidateOther, ValidateFails,
                Stored, Updated, TunnelClosed, AcceptMalformed, AcceptFails
<1> QED
  BY <1>1, <1>2, <1>3, <1>4, <1>5, <1>6, <1>7, <1>10, <1>11 DEF Run, Arrive

(* So every step keeps the types.                                            *)
LEMMA ProxyTypeStep ==
    ASSUME RequestKnown, IInv, IInv', OKInv, AskInv, TypeInv, [ProxyNext]_proxyVars
    PROVE  TypeInv'
<1>1. ASSUME NEW p \in Threads,
             Arrive(p) \/ Run(p) \/ OriginAnswers(p) \/ TunnelClosed(p)
      PROVE  TypeInv'
  <2>1. /\ thread' \in [Threads -> Locals] /\ reply' \in [Threads -> Seq(Messages)]
        /\ object' \in [Threads -> Objects \cup {NULL}]
        /\ \A q \in Threads : life'[q] # "new" => object'[q] \in Objects
    BY <1>1, ThreadStep, ReplyStep, ObjectTyped
  <2>2. UNCHANGED origin
    BY <1>1 DEF Arrive, Accept, AcceptMalformed, AcceptFails, OriginAnswers, Answer,
                TunnelClosed,
                Run, InCache, LookupMissed, LookupFound, Expired, Fresh, MustValidate,
                Serve,
                ConnectFails, ConnectFetch, ConnectValidate, ConnectTunnel, FetchWhole,
                FetchPart, FetchHeadless, FetchFails, FetchChunked, ChunksEnd, ChunksCut,
                ValidateOK, ValidateNotModified, ValidateOther, ValidateFails, Stored,
                Updated
  <2>3. ProxyTypeOK'
    BY <2>1, <2>2 DEF TypeInv, ProxyTypeOK, Locals, Pointers, Wires
  <2>4. ASSUME NEW q \in Threads \ {p}
        PROVE  thread'[q] = thread[q] /\ call'[q] = call[q]
    BY <1>1, <2>4, OthersStay
  <2>5. Filled(p)'
    BY <1>1, <2>1, FilledOwn DEF Filled
  <2>6. \A q \in Threads \ {p} : Filled(q)'
    BY <2>1, <2>4 DEF TypeInv, Filled, In, At
  <2> QED  BY <2>3, <2>5, <2>6 DEF TypeInv
<1>2. CASE UNCHANGED <<vars, own>> /\ origin' \in [Urls -> Versions]
  BY <1>2 DEF vars, own, TypeInv, ProxyTypeOK, Filled, In, At
<1>3. ASSUME NEW u \in Urls, Change(u)
      PROVE  origin' \in [Urls -> Versions]
  BY <1>3, VersionAssumption DEF Change, TypeInv, ProxyTypeOK, Versions
<1>4. AllDone \/ UNCHANGED proxyVars => UNCHANGED <<vars, own, origin>>
  BY DEF AllDone, proxyVars
<1>5. (\E u \in Urls : Change(u)) \/ AllDone \/ UNCHANGED proxyVars
        => UNCHANGED <<vars, own>> /\ origin' \in [Urls -> Versions]
  BY <1>3, <1>4 DEF Change, TypeInv, ProxyTypeOK
<1> QED
  BY <1>1, <1>2, <1>5, Zenon DEF ProxyNext

(* Types: a thread never takes anything but a response, or memory that was   *)
(* freed, for what get returned; what is handed to put has been filled in;   *)
(* and what is sent to a client names a version.                             *)
THEOREM ProxyTypeCorrect == ProxySpec => []ProxyTypeOK
<1>1. ProxyInit => TypeInv
  <2> SUFFICES ASSUME ProxyInit PROVE TypeInv
    OBVIOUS
  <2>1. thread \in [Threads -> Locals]
    BY DEF ProxyInit, Locals, Pointers, Places
  <2>2. reply \in [Threads -> Seq(Messages)] /\ object \in [Threads -> Objects \cup {NULL}]
    BY DEF ProxyInit
  <2>3. origin \in [Urls -> Versions]
    BY VersionAssumption DEF ProxyInit, Versions
  <2>4. \A p \in Threads : Filled(p)
    BY OwnResponse DEF ProxyInit, Init, Filled, In
  <2> QED  BY <2>1, <2>2, <2>3, <2>4 DEF TypeInv, ProxyTypeOK, Locals, Pointers, Wires
<1>2. RequestKnown /\ IInv /\ IInv' /\ OKInv /\ AskInv /\ TypeInv /\ [ProxyNext]_proxyVars
        => TypeInv'
  BY ProxyTypeStep
<1>3. TypeInv => ProxyTypeOK
  BY DEF TypeInv
<1>4. ProxySpec => []RequestKnown
  BY InitKnown, ProxyStep, PTL DEF ProxySpec
<1>5. ProxySpec => []IInv
  BY ProxyUsesCache, Invariance, PTL
<1> QED  BY <1>1, <1>2, <1>3, <1>4, <1>5, OKAlways, AskAlways, PTL DEF ProxySpec
=============================================================================
