------------------------------- MODULE Proxy -------------------------------
(***************************************************************************)
(* The proxy threads of proxy.cpp.  Each serves one request, from recv to   *)
(* the end of its thread, against a shared Cache and origin servers whose   *)
(* documents change.  The calls of the cache are the steps of module Cache: *)
(* what happens in this module between them may be interleaved with the     *)
(* steps of other threads, in the cache or at an origin.                    *)
(*                                                                          *)
(* The http_Response that a thread allocates is named after the thread.     *)
(* Whether checkExpire finds the response it reads fresh, and whether a     *)
(* fresh one must still be validated, depends on the clock and on headers   *)
(* (module Freshness); here both answers are possible.                      *)
(***************************************************************************)
EXTENDS Cache

CONSTANTS
    Methods,     \* of the requests, e.g. {"GET", "POST", "CONNECT", "PUT"}
    Conditions,  \* versions the clients hold and ask about, NULL for none
    Answers,     \* kinds of answers the origins give
    Chunkings,   \* whether they come in chunks
    NoStores,    \* whether origins say no-store (or private)
    Validators,  \* whether origins send Last-Modified or ETag
    MaxVersion   \* how often a document changes

ASSUME OwnResponse == Responses = Threads
ASSUME VersionAssumption == MaxVersion \in Nat

VARIABLES
    thread,  \* the local state of each thread, a record:
             \*   pc      where it is
             \*   req     the request it serves
             \*   held    response_instance, what myCache->get returned
             \*   judged  the response that checkExpire looked at
             \*   ask     version that the conditional headers it sends name
             \*   wire    the origin's answer, on its way to the thread
    reply,   \* what each thread has sent to its client
    object,  \* contents of the http_Response that each thread allocated
    origin   \* current version of each document

own == <<thread, reply, object>>
proxyVars == <<vars, own, origin>>

Versions == 0 .. MaxVersion

Requests == [method : Methods, url : Urls, cond : Conditions]

\* What an origin does with a request.  "ok", "notModified" and "other" are
\* whole answers with status 200, 304 and any other, which say where they end;
\* "broken" is one that parseResponse rejects, for its form or because the
\* origin stops before its end.  "reset" is a failing recv, "unsent" a failing
\* send of the request.
Proper == {"ok", "notModified", "other"}
AnswerKinds == Proper \cup {"broken", "reset", "unsent"}

ASSUME OriginAssumption ==
    /\ Conditions \subseteq Versions \cup {NULL}
    /\ Answers \subseteq AnswerKinds /\ Chunkings \subseteq BOOLEAN
    /\ NoStores \subseteq BOOLEAN /\ Validators \subseteq BOOLEAN

Garbage == [url |-> NULL, status |-> "other", ver |-> Wild, noStore |-> FALSE,
            validator |-> FALSE]

ProxyInit ==
    /\ Init
    /\ thread = [p \in Threads |->
                    [pc |-> "accepted", req |-> NULL, held |-> NULL,
                     judged |-> NULL, ask |-> NULL, wire |-> NULL]]
    /\ reply = [p \in Threads |-> << >>]
    /\ object = [p \in Threads |-> NULL]
    /\ origin = [u \in Urls |-> 0]

-----------------------------------------------------------------------------
(* Helpers.                                                                 *)

In(p, places) == thread[p].pc \in places

Goto(p, place) == thread' = [thread EXCEPT ![p].pc = place]

\* The thread ends, by return or by an exception, and its locals with it.
Exit(p) ==
    thread' = [thread EXCEPT ![p].pc = "done", ![p].held = NULL,
                             ![p].judged = NULL, ![p].ask = NULL, ![p].wire = NULL]

Arrived(p, kinds) == thread[p].wire # NULL /\ thread[p].wire.kind \in kinds

Send(p, kind, ver) ==
    reply' = [reply EXCEPT ![p] = Append(@, [kind |-> kind, ver |-> ver])]

\* proxyERROR: a bare status line, 400, 404 or 502.
SendError(p) == Send(p, "error", NULL)

\* The key of the cache: parseRequest prefixes the uri with host and port.
UriOnly(q) == CHOOSE u \in Urls : TRUE   \* mutant: uri without the host
Key(q) == q.url

\* What dereferencing r gives: the object while it is alive.
Deref(r) ==
    IF r = Wild THEN {Garbage}
    ELSE IF life[r] = "deleted" THEN {object[r], Garbage}
    ELSE {object[r]}

\* ConstructValidation: If-Modified-Since and If-None-Match of the response;
\* when it has neither, the client's request as it is.
ClientsOwn(c, o) == c                    \* mutant: validators are not added
Validator(c, o) == IF o.validator THEN o.ver ELSE c

\* proxyGET stores what the origin sent for later requests.
Cacheable(o) == o.status = "ok" /\ ~o.noStore

\* The new http_Response, of the answer or of what has come of it; one that
\* does not parse is not used any more.
Parsed(p) ==
    LET w == thread[p].wire IN
    [url |-> thread[p].req.url, ver |-> w.ver,
     status |-> IF w.kind = "ok" THEN "ok" ELSE "other",
     noStore |-> w.noStore, validator |-> w.validator]

-----------------------------------------------------------------------------
(* runProxy1, setRequest, judgeRequest.                                     *)

Begin(p, q, place) ==
    thread' = [thread EXCEPT ![p].pc = place, ![p].req = q]

\* The request arrives and is parsed; a GET calls myCache->get.
Accept(p, q) ==
    /\ In(p, {"accepted"})
    /\ \/ /\ q.method = "GET"
          /\ Begin(p, q, "lookup")
          /\ GetCall(p, Key(q))
          /\ UNCHANGED reply
       \/ /\ q.method \in {"POST", "CONNECT"}
          /\ Begin(p, q, "connect")
          /\ UNCHANGED <<vars, reply>>
       \/ /\ q.method \notin {"GET", "POST", "CONNECT"}
          /\ Begin(p, q, "done")
          /\ SendError(p)                           \* 400
          /\ UNCHANGED vars
    /\ UNCHANGED <<object, origin>>

\* The request does not parse: 400 and an exception that ends the thread.
AcceptMalformed(p) ==
    /\ In(p, {"accepted"})
    /\ SendError(p)
    /\ Exit(p)
    /\ UNCHANGED <<vars, object, origin>>

\* recv fails, or stoi throws on a number of Cache-Control: no answer at all.
AcceptFails(p) ==
    /\ In(p, {"accepted"})
    /\ Exit(p)
    /\ UNCHANGED <<vars, reply, object, origin>>

\* A thread inside get, checkExpire or put.
InCache(p) ==
    /\ In(p, {"lookup", "judge", "store", "update"})
    /\ Step(p)
    /\ UNCHANGED <<own, origin>>

-----------------------------------------------------------------------------
(* proxyGET.                                                                *)

LookupMissed(p) ==
    /\ In(p, {"lookup"}) /\ At(p, "idle")
    /\ call[p].ret = NULL
    /\ Goto(p, "connect")
    /\ UNCHANGED <<vars, reply, object, origin>>

LookupFound(p) ==
    /\ In(p, {"lookup"}) /\ At(p, "idle")
    /\ call[p].ret # NULL
    /\ thread' = [thread EXCEPT ![p].pc = "judge", ![p].held = call[p].ret]
    /\ ExpireCall(p, Key(thread[p].req))
    /\ UNCHANGED <<reply, object, origin>>

\* mutant: asks again until it is fresh
ExpiredAgain(p) ==
    /\ In(p, {"judge"}) /\ At(p, "idle")
    /\ ExpireCall(p, Key(thread[p].req))
    /\ UNCHANGED <<own, origin>>

\* checkExpire found nothing under the url, or judged what it found expired.
Expired(p) ==
    /\ In(p, {"judge"}) /\ At(p, "idle")
    /\ thread' = [thread EXCEPT ![p].pc = "revalidate", ![p].judged = call[p].ret]
    /\ UNCHANGED <<vars, reply, object, origin>>

Fresh(p) ==
    /\ In(p, {"judge"}) /\ At(p, "idle")
    /\ call[p].ret # NULL
    /\ thread' = [thread EXCEPT ![p].pc = "fresh", ![p].judged = call[p].ret]
    /\ UNCHANGED <<vars, reply, object, origin>>

MustValidate(p) ==
    /\ In(p, {"fresh"})
    /\ Goto(p, "revalidate")
    /\ UNCHANGED <<vars, reply, object, origin>>

Serve(p) ==
    /\ In(p, {"fresh"})
    /\ \E o \in Deref(thread[p].held) : Send(p, "cached", o.ver)
    /\ Exit(p)
    /\ UNCHANGED <<vars, object, origin>>

-----------------------------------------------------------------------------
(* connectServer, and the request that is sent right after.                 *)

\* mutant: the exception before the 404 is sent
ConnectFailsSilent(p) ==
    /\ In(p, {"connect", "revalidate"})
    /\ Exit(p)
    /\ UNCHANGED <<vars, reply, object, origin>>

\* mutant: no throw after the 404
ConnectFailsGoesOn(p) ==
    /\ In(p, {"connect"})
    /\ SendError(p)
    /\ Goto(p, "fetch")
    /\ UNCHANGED <<vars, object, origin>>

ConnectFails(p) ==
    /\ In(p, {"connect", "revalidate"})
    /\ SendError(p)                                 \* 404, and an exception
    /\ Exit(p)
    /\ UNCHANGED <<vars, object, origin>>

\* proxyPOST and the miss of proxyGET: proxyFetch forwards the request.
ConnectFetch(p) ==
    /\ In(p, {"connect"}) /\ thread[p].req.method # "CONNECT"
    /\ thread' = [thread EXCEPT ![p].pc = "fetch", ![p].ask = thread[p].req.cond]
    /\ UNCHANGED <<vars, reply, object, origin>>

\* HandleValidation.
ConnectValidate(p) ==
    /\ In(p, {"revalidate"})
    /\ \E o \in Deref(thread[p].held) :
          thread' = [thread EXCEPT ![p].pc = "validate",
                                   ![p].ask = Validator(thread[p].req.cond, o)]
    /\ UNCHANGED <<vars, reply, object, origin>>

\* proxyCONNECT: "200 OK" to the client, then the tunnel, which ends as soon
\* as either side closes.
ConnectTunnel(p) ==
    /\ In(p, {"connect"}) /\ thread[p].req.method = "CONNECT"
    /\ Send(p, "established", NULL)
    /\ Goto(p, "tunnel")
    /\ UNCHANGED <<vars, object, origin>>

TunnelClosed(p) ==
    /\ In(p, {"tunnel"})
    /\ Exit(p)
    /\ UNCHANGED <<vars, reply, object, origin>>

-----------------------------------------------------------------------------
(* The origin servers: not part of src/, seen through send and recv.        *)

\* How much of the answer a recv brings is not the origin's choice: Fetch...,
\* Chunks... and Validate... below.  A 304 has no body to come in chunks.
Answer(p, kind) ==
    /\ In(p, {"fetch", "validate"}) /\ thread[p].wire = NULL
    /\ kind = "notModified" => thread[p].ask = origin[thread[p].req.url]
    /\ kind = "unsent" => In(p, {"fetch"})
    /\ \E ch \in Chunkings, ns \in NoStores, va \in Validators :
          /\ ch => kind \in {"ok", "other", "broken"}
          /\ thread' = [thread EXCEPT ![p].wire =
                [kind |-> kind, chunked |-> ch, ver |-> origin[thread[p].req.url],
                 noStore |-> ns, validator |-> va]]
    /\ UNCHANGED <<vars, reply, object, origin>>

Change(u) ==
    /\ origin[u] < MaxVersion
    /\ origin' = [origin EXCEPT ![u] = @ + 1]
    /\ UNCHANGED <<vars, own>>

-----------------------------------------------------------------------------
(* proxyFetch and the rest of proxyGET and proxyPOST.                       *)

\* After proxyFetch has returned a response: proxyPOST deletes it, proxyGET
\* puts it in the cache or loses it.
Keep(p) ==
    LET o == Parsed(p) IN
    IF thread[p].req.method = "POST"
    THEN /\ Exit(p)
         /\ UNCHANGED <<vars, object>>
    ELSE /\ object' = [object EXCEPT ![p] = o]
         /\ IF Cacheable(o)
            THEN Goto(p, "store") /\ PutCall(p, Key(thread[p].req), p)
            ELSE Exit(p) /\ UNCHANGED vars

\* The one recv brought the whole answer: forward it, then parse it.
FetchWhole(p) ==
    /\ In(p, {"fetch"}) /\ Arrived(p, Proper) /\ ~thread[p].wire.chunked
    /\ Send(p, "forwarded", thread[p].wire.ver)
    /\ Keep(p)
    /\ UNCHANGED origin

\* mutant: the result of parseResponse is not looked at
FetchPartKept(p) ==
    /\ In(p, {"fetch"}) /\ Arrived(p, {"ok", "other", "broken"}) /\ ~thread[p].wire.chunked
    /\ Send(p, "part", thread[p].wire.ver)
    /\ Keep(p)
    /\ UNCHANGED origin

\* It brought the head and not all of the body, or something malformed: that is
\* forwarded and does not parse.  NULL, nothing to keep, and nothing follows.
FetchPart(p) ==
    /\ In(p, {"fetch"}) /\ Arrived(p, {"ok", "other", "broken"}) /\ ~thread[p].wire.chunked
    /\ object' = [object EXCEPT ![p] = Parsed(p)]
    /\ Send(p, "part", thread[p].wire.ver)
    /\ Exit(p)
    /\ UNCHANGED <<vars, origin>>

\* It brought no empty line, or nothing at all: check502, 502, an exception.
FetchHeadless(p) ==
    /\ In(p, {"fetch"}) /\ Arrived(p, Proper \cup {"broken"})
    /\ SendError(p)
    /\ Exit(p)
    /\ UNCHANGED <<vars, object, origin>>

\* recv gave -1: recvBuff's resize throws; or the request could not be sent.
FetchFails(p) ==
    /\ In(p, {"fetch"}) /\ Arrived(p, {"reset", "unsent"})
    /\ Exit(p)
    /\ UNCHANGED <<vars, reply, object, origin>>

\* chunkHandle forwards what it has, then what comes, until nothing comes for
\* a second.
FetchChunked(p) ==
    /\ In(p, {"fetch"}) /\ Arrived(p, {"ok", "other", "broken"}) /\ thread[p].wire.chunked
    /\ Send(p, "head", thread[p].wire.ver)
    /\ Goto(p, "chunks")
    /\ UNCHANGED <<vars, object, origin>>

ChunksEnd(p) ==
    /\ In(p, {"chunks"}) /\ Arrived(p, {"ok", "other"})
    /\ Send(p, "rest", thread[p].wire.ver)
    /\ Keep(p)
    /\ UNCHANGED origin

\* The pause came before the end of the chunks, or they are malformed: they do
\* not parse, chunkHandle returns NULL, and proxyFetch goes on as for an answer
\* that is not chunked: it sends what its recv brought, once more.
ChunksCut(p) ==
    /\ In(p, {"chunks"}) /\ Arrived(p, {"ok", "other", "broken"})
    /\ object' = [object EXCEPT ![p] = Parsed(p)]
    /\ Send(p, "head", thread[p].wire.ver)
    /\ Exit(p)
    /\ UNCHANGED <<vars, origin>>

-----------------------------------------------------------------------------
(* The rest of HandleValidation.  Its one recv has to bring all of the       *)
(* answer, in chunks or not.                                                *)

\* 200: update the cache; the answer is sent after the put.
ValidateOK(p) ==
    /\ In(p, {"validate"}) /\ Arrived(p, {"ok"})
    /\ object' = [object EXCEPT ![p] = Parsed(p)]
    /\ PutCall(p, Key(thread[p].req), p)
    /\ Goto(p, "update")
    /\ UNCHANGED <<reply, origin>>

\* 304: send the cached response.
ValidateNotModified(p) ==
    /\ In(p, {"validate"}) /\ Arrived(p, {"notModified"})
    /\ object' = [object EXCEPT ![p] = Parsed(p)]
    /\ \E o \in Deref(thread[p].held) : Send(p, "confirmed", o.ver)
    /\ Exit(p)
    /\ UNCHANGED <<vars, origin>>

ValidateOther(p) ==
    /\ In(p, {"validate"}) /\ Arrived(p, {"other"})
    /\ object' = [object EXCEPT ![p] = Parsed(p)]
    /\ Send(p, "forwarded", thread[p].wire.ver)
    /\ Exit(p)
    /\ UNCHANGED <<vars, origin>>

\* What came does not parse, not being all or malformed, or recv failed before
\* there was a response: nothing is sent to the client.
ValidateFails(p) ==
    /\ In(p, {"validate"}) /\ thread[p].wire # NULL
    /\ IF Arrived(p, {"reset"}) THEN UNCHANGED object
       ELSE object' = [object EXCEPT ![p] = Parsed(p)]
    /\ Exit(p)
    /\ UNCHANGED <<vars, reply, origin>>

\* put has returned.
Stored(p) ==
    /\ In(p, {"store"}) /\ At(p, "idle")
    /\ Exit(p)
    /\ UNCHANGED <<vars, reply, object, origin>>

Updated(p) ==
    /\ In(p, {"update"}) /\ At(p, "idle")
    /\ Send(p, "forwarded", thread[p].wire.ver)
    /\ Exit(p)
    /\ UNCHANGED <<vars, object, origin>>

-----------------------------------------------------------------------------
Run(p) ==
    \/ InCache(p)
    \/ LookupMissed(p) \/ LookupFound(p) \/ Expired(p) \/ Fresh(p)
    \/ MustValidate(p) \/ Serve(p)
    \/ ConnectFails(p) \/ ConnectFetch(p) \/ ConnectValidate(p)
    \/ ConnectTunnel(p)
    \/ FetchWhole(p) \/ FetchPart(p) \/ FetchHeadless(p) \/ FetchFails(p)
    \/ FetchChunked(p) \/ ChunksEnd(p) \/ ChunksCut(p)
    \/ ValidateOK(p) \/ ValidateNotModified(p) \/ ValidateOther(p)
    \/ ValidateFails(p)
    \/ Stored(p) \/ Updated(p)

Arrive(p) == AcceptMalformed(p) \/ AcceptFails(p) \/ \E q \in Requests : Accept(p, q)

OriginAnswers(p) == \E kind \in Answers : Answer(p, kind)

\* Nothing is left to do when every thread has ended, or the process with them.
AllDone ==
    /\ Crashed \/ \A p \in Threads : In(p, {"done"})
    /\ UNCHANGED proxyVars

ProxyNext ==
    \/ /\ ~Crashed
       /\ \/ \E p \in Threads : Arrive(p) \/ Run(p) \/ OriginAnswers(p) \/ TunnelClosed(p)
          \/ \E u \in Urls : Change(u)
    \/ AllDone

ProxySpec == ProxyInit /\ [][ProxyNext]_proxyVars

\* The scheduler runs every thread of a process that lives; an origin that took
\* a request answers it or fails, and the two ends of a tunnel close it some
\* time.
FairProxySpec ==
    /\ ProxySpec
    /\ \A p \in Threads :
          /\ WF_proxyVars(~Crashed /\ Run(p))
          /\ WF_proxyVars(~Crashed /\ OriginAnswers(p))
          /\ WF_proxyVars(~Crashed /\ TunnelClosed(p))

-----------------------------------------------------------------------------
(* Properties.                                                              *)

Places == {"accepted", "lookup", "judge", "fresh", "revalidate", "connect",
           "fetch", "chunks", "validate", "store", "update", "tunnel", "done"}

Messages == [kind : {"error", "established", "cached", "confirmed", "forwarded",
                     "part", "head", "rest"},
             ver : Versions \cup {NULL, Wild}]

Objects == [url : Urls, ver : Versions, status : {"ok", "other"},
            noStore : BOOLEAN, validator : BOOLEAN]

ProxyTypeOK ==
    /\ thread \in [Threads ->
          [pc : Places, req : Requests \cup {NULL},
           held : Responses \cup {NULL, Wild}, judged : Responses \cup {NULL, Wild},
           ask : Versions \cup {NULL, Wild},
           wire : {NULL} \cup [kind : AnswerKinds, chunked : BOOLEAN, ver : Versions,
                              noStore : BOOLEAN, validator : BOOLEAN]]]
    /\ reply \in [Threads -> Seq(Messages)]
    /\ object \in [Threads -> Objects \cup {NULL}]
    /\ origin \in [Urls -> Versions]

Alive(r) == r # Wild /\ life[r] # "deleted"

Kinds(msgs) == [i \in DOMAIN msgs |-> msgs[i].kind]

\* One message is an answer, or as much of one as came; chunks are answered in
\* two, the head and the rest.
Whole(msgs) ==
    \/ Len(msgs) = 1 /\ msgs[1].kind \notin {"part", "head", "rest"}
    \/ Kinds(msgs) = <<"head", "rest">> /\ msgs[1].ver = msgs[2].ver

\* Whatever fails, a client never gets a second answer behind a first one, or an
\* error behind a piece of an answer, which it would take for part of it: what
\* it gets is one whole answer, or a beginning and then nothing -- or, after
\* chunks that do not parse, that same beginning again.
OneAnswer ==
    \A p \in Threads :
        \/ reply[p] = << >>
        \/ Whole(reply[p])
        \/ Kinds(reply[p]) \in {<<"part">>, <<"head">>, <<"head", "head">>}

\* A client whose request was parsed is left without any answer only by a
\* validation that brings no usable answer, or by a connection that fails under
\* the request or before the answer.
SilentOnlyOnFailure ==
    [][\A p \in Threads :
          In(p, {"done"})' /\ ~In(p, {"done"}) /\ thread[p].req # NULL /\ reply'[p] = << >>
          => In(p, {"validate"}) \/ Arrived(p, {"reset", "unsent"})]_proxyVars

\* What is in the cache was answered with 200 for the url it is under, and the
\* client it was fetched for got all of it (or will, after a validation): a part
\* of an answer never becomes the answer to other clients.
CachedIsOK ==
    \A e \in Range(respList) :
        LET r == entry[e].resp IN
        /\ object[r].status = "ok" /\ object[r].url = entry[e].url
        /\ Whole(reply[r]) \/ In(r, {"update"})

\* get and checkExpire look the url up separately.  If the response that get
\* returned is under the url when the thread is about to send it, it is the
\* one that checkExpire found fresh, whatever was put and evicted in between.
StableMeansJudged ==
    \A p \in Threads :
        In(p, {"fresh"}) =>
            LET e == map[Key(thread[p].req)] IN
            e # NULL /\ entry[e].resp = thread[p].held => thread[p].judged = thread[p].held

\* A 304 to a validation that named the cached response's own validator says
\* that this response is the document's current version.
NotModifiedMeansCurrent ==
    \A p \in Threads :
        /\ In(p, {"validate"}) /\ Arrived(p, {"notModified"})
        /\ Alive(thread[p].held) /\ object[thread[p].held].validator
        => object[thread[p].held].ver = thread[p].wire.ver

\* As long as every get reads the entry that it found (GetReadsItsUrl, which an
\* eviction can break), what it returns answers the requested url, even if puts
\* replace and delete responses between its unlock and its read.
HeldIsOfUrl ==
    \A p \in Threads :
        In(p, {"judge", "fresh", "revalidate", "validate"}) =>
            /\ thread[p].held \in Responses
            /\ object[thread[p].held].url = thread[p].req.url

\* Every request that was parsed is done with some time, unless the process
\* dies: no thread waits for ever for the mutex or for another thread.
EveryRequestEnds ==
    \A p \in Threads : thread[p].req # NULL ~> In(p, {"done"}) \/ Crashed

-----------------------------------------------------------------------------
(* What the documentation says and the code does not keep.                  *)

\* "if 1, cannot cache", response.hpp:29.
NoStoreNotCached ==
    \A e \in Range(respList) : ~object[entry[e].resp].noStore

\* Danger Log 4a: the response "will not be delete after one request finish,
\* it should be stored in the Cache object for later use".
HeldIsAlive ==
    \A p \in Threads :
        In(p, {"fresh", "revalidate", "validate"}) => Alive(thread[p].held)
=============================================================================
