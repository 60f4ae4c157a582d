# Verification of the caching HTTP proxy

TLA+ models of the proxy in `docker-depoly/src`: TLC checks them on small
instances; TLAPS proves the safety properties of the passing runs for every value of the
constants.

## The system

`main` calls `proxyListen`, which accepts connections for ever and gives each
one to a detached thread running `runProxy1`. A thread owns one `Proxy`, one
`http_Request` and two sockets; it serves one request and ends. All threads
share one `Cache` of `http_Response` pointers and one log file. `run.sh` starts
the process again whenever it ends.

| component | state | operations | talks to |
|---|---|---|---|
| Cache (`cache.hpp`) | list of (url, response), hash map url -> list node, mutex, capacity | `get`, `put`, `checkExpire` | called by every thread; owns the responses it holds |
| Request handling (`proxy.cpp`: `runProxy1`, `setRequest`, `judgeRequest`, `proxyGET`, `proxyPOST`, `proxyFetch`, `HandleValidation`, ...) | locals of one thread: the request, the response that `get` returned, the response it allocated | one request from `recv` to the thread's end | client and origin sockets; the cache; the log |
| Freshness (`response.hpp`, `request.hpp`, `checkExpire`, the predicate of `proxyGET`) | the numbers read from headers: `Date`, `EXPIRES`, `max_age`, `no_store`, `no_cache`; of a request `max_age`, `max_stale`, `min_fresh`, `no_cache` | reading headers; judging against the clock | proxyGET |
| Tunnel (`proxyCONNECT`, `sendall`, `recvChar`) | two descriptors, an fd_set | relay both ways until either side closes | client, origin |
| Transfer (`recvBuff`, `recvChar`, `sendall`, `chunkHandle`'s loop) | a buffer, a receive timeout of 1 s | one recv; recv until a short read or the timeout | sockets |
| HTTP parser (`httpparser/`, vendored) | state of a character automaton | `parse` | request.hpp, response.hpp |
| Listener (`proxyListen`, `main`) | listening socket, `requestID` | accept, start a thread | threads |
| Supervisor (`run.sh`) | none | start `main` again | the process |
| Log (`log.hpp`) | mutex, file | append a line | every thread |
| Deployment (Dockerfile, Makefile, docker-compose.yml), `Preworks/` | - | build; an unused early server class | - |

What makes it hard:

* threads meet in the cache. `get` reads the entry after it has unlocked
  (cache.hpp:40), `checkExpire` never locks, and `put` deletes a response that
  other threads may be using (cache.hpp:57);
* `proxyGET` looks its url up twice, in `get` and in `checkExpire`, and uses
  the results of both;
* ownership of responses is by hand: `put` takes one over, every other path
  keeps or loses it;
* an exception is the way out of a thread: which answer has been sent by then
  depends on the path;
* the meaning of a response's age rests on sentinels (-1, 0) and on one
  comparison written the other way round;
* streams: one `recv` is taken for a message, one second of silence for its end,
  and reads and sends may move any part of the bytes;
* descriptors are numbers of the whole process: a thread that closes the wrong
  one closes it for another thread;
* SIGPIPE is not handled: a send to a peer that has gone ends the process, and
  `run.sh` starts a new one, with an empty cache.

What makes each component correct:

* Cache: a key always leads to an entry of its url, also between the writes of a
  `put`; the list stays within the capacity; what it holds is alive, each response
  has one owner and is deleted once; the mutex is always given back; together an
  atomic LRU cache, whose `get` may rely on its iterator for a while.
* Request handling: never a second answer behind a first one, whatever other
  threads and origins do, and silence only after a failure; only 200s that were
  sent whole are cached, under the url they answer; a response that is still cached
  is the one that was judged; a 304 to the proxy's own validator means the cached
  version is current; every request ends.
* Freshness: expiry is what the headers say; a request can only tighten it; the
  logged expiry time is kept by the response that was judged; directives are not
  lost between headers.
* Tunnel: bytes in order, none lost or added; the last bytes of the side that
  closes arrive; neither side is starved; it ends when a side does.
* Transfer and HTTP parser: a request is forwarded whole; an answer is sent in order;
  it is kept whole or not at all, and only if it was sent; one that has begun comes
  to an end.
* Listener and Supervisor: a connection accepted is closed some time; a client is
  not left with a thread that is gone or cannot reach it; no descriptor is lost but by
  a failed connect; nothing but an unset `server_des` closes another's descriptor.

## Modules

| module | what it is |
|---|---|
| `Cache` | `cache.hpp`, one action per step between two points where another thread can see or disturb the call |
| `LRUCache` | what the cache promises: exactly the `Capacity` urls used last |
| `CacheLRU` | `Cache` with three history variables, the refinement mapping to `LRUCache`, and how long `get` may rely on its iterator |
| `CacheProofs` | the theorems about `Cache` |
| `CacheLRUProofs` | `Cache` implements `LRUCache`; `GetSafeWhileRecent` |
| `Proxy` | extends `Cache` with the threads that call it, their clients' requests and replies, and the origin servers |
| `ProxyProofs` | every step of `Proxy` is a step of `Cache` or leaves it alone, so the theorems about `Cache` hold of the proxy; `CachedIsOK`, `OneAnswer`, `SilentOnlyOnFailure`, `NotModifiedMeansCurrent`, `StableMeansJudged`, `HeldIsOfUrl` and `ProxyTypeOK` |
| `Freshness` | headers to numbers, numbers to verdict, against a clock |
| `FreshnessProofs` | the theorems about `Freshness` |
| `Streams` | the two connections of a thread with `recvBuff`, `recvChar` and `sendall`; used by the next two |
| `Pipes` | what a tunnel promises: two pipes |
| `Tunnel` | extends `Streams`: `proxyCONNECT` |
| `HttpParser` | the two automata of `httpparser/`, and the grammar they are compared with |
| `Exchange` | extends `Streams` and `HttpParser`: one GET or POST, byte by byte |
| `Server` | `proxyListen`, the threads' sockets, `~Proxy`, crashes and `run.sh` |
| `WireProofs` | what the calls of `Streams` do, and that the automata of `HttpParser` read every message of the grammar whole; used by the next two |
| `TunnelProofs`, `ExchangeProofs`, `ServerProofs` | the theorems about these |
| `MCCache`, `MCCacheLRU`, `MCProxy`, `MCTunnel`, `MCExchange` | the small instances: symmetry sets, scripts, messages |
| `MCFreshness` | the instance of `Freshness`, whose values are all in its cfg |

`Proxy`, `Exchange` and `Server` show the same threads at three distances.
`Proxy` has all the threads and the cache, and takes an answer as one value;
`Exchange` has one thread and every byte; `Server` has all the threads and
their descriptors, and takes what a thread does between opening and closing
them as one step. `Tunnel` is what `Proxy` has as the place `tunnel`.

### Cache

`cacheLock`, `respList` and `map` are the fields of the class; `entry` is the
contents of list and hash nodes, `life` tells whether a response has been given
to `put` and deleted by it, `call` is the program counter and the locals of the
call each thread is in. The unlocked `checkExpire` and the dereference of `get`
see the state between any two writes of a `put`, which are steps of their own:

| cache.hpp | action |
|---|---|
| 28-39 `get`, lock to unlock | `GetCall`, then `GetMiss` or `GetHit` |
| 40 `return it->second->second` | `GetRead` |
| 50-57 lock, find, `delete` | `PutCall`, `PutFound` |
| 58-62 the new pointer, `splice`, unlock | `PutUpdate` |
| 50-51, 67-70 full: `map.erase` | `PutEvict` |
| 71 `pop_back` | `PutPop` |
| 50-51, 67 not full | `PutMiss` |
| 75 `emplace_front` | `PutInsert` |
| 76 `map[url]`, the key with a null iterator | `PutKey` |
| 76 `= respList.begin()`, unlock | `PutLink` |
| 88-90 `checkExpire` | `ExpireCall`, `ExpireFind` or `ExpireMiss`, `ExpireRead` |

What `get` does under the mutex is one step: it changes nothing but the order
of the list, which readers without the mutex do not look at. So an unlock forgotten in `get` would not show
in `LockDiscipline`, which speaks of the paths of `put`.

Memory: `Entries` are addresses, and one stands for both the list node and the hash
node of a url. A freed entry keeps its contents, or becomes anything (`Wild`), until
an insertion takes the address again (`Loaded`): the outcomes of the undefined
behaviour that the properties can tell apart. A reader that meets the hash map
while a `put` erases from it or inserts into it may miss its key (`ExpireMiss`), find
it, or crash; one that meets the null iterator crashes (`ReadCrashes`). A crash is the
end of the process, and so of this cache (`Dead`); `Server` has the restart.
`Capacity` is at least 1: `put` on an empty full list would call `back()` on it,
and the proxy passes 500.

### Proxy

A thread is a program counter (`pc`), the request, and the locals that outlive a
step. Its actions are the stretches of `proxy.cpp` between two blocking or
shared operations:

| pc | waiting for | actions |
|---|---|---|
| accepted | the request (`recvBuff`) | `Accept`, `AcceptMalformed` (400), `AcceptFails` (recv fails, or `stoi` throws) |
| lookup | `get` | `InCache`, `LookupMissed`, `LookupFound` |
| judge | `checkExpire` | `InCache`, `Expired`, `Fresh` |
| fresh | - | `MustValidate`, `Serve` |
| connect, revalidate | `connectServer` | `ConnectFails` (404), `ConnectFetch`, `ConnectTunnel`, `ConnectValidate` |
| fetch, chunks | the origin | `FetchWhole`, `FetchPart`, `FetchHeadless` (502), `FetchFails`, `FetchChunked`, `ChunksEnd`, `ChunksCut` |
| validate | the origin | `ValidateOK` (200), `ValidateNotModified` (304), `ValidateOther`, `ValidateFails` |
| store, update | `put` | `InCache`, `Stored`, `Updated` |
| tunnel | either side | `TunnelClosed` |

The calls of the cache are the actions of module `Cache`, interleaved one by one
with the other threads. `reply` is what the client has received, `object` the
contents of the `http_Response` a thread allocated (each thread allocates at
most one that can reach the cache, so it carries the thread's name), `origin`
the current version of each document. A condition is the version that its
`If-Modified-Since` or `If-None-Match` names.

The origins are outside the repository. `Answer` is what an origin does: a whole
answer with status 200, 304 (only if the request's condition names the current
version) or another, one that does not parse or is cut off, a reset, or a request that
cannot be sent; chunked or not, also to a validation. How much of it a `recv` brings
is not the origin's choice but the proxy's way of receiving: whatever the origin
answers, `FetchPart` may forward only its first segment, which then does not parse,
`FetchHeadless` may see no empty line in it, `ChunksCut` may give up in a pause, and
`ValidateFails` may find that its one `recv` did not bring all. An answer in one
`recv` is one of the cases (`FetchWhole`, `ChunksEnd`, `ValidateOK`), not an
assumption. `reply` says what has been sent: `part` and `head` are beginnings, and
`Whole` does not count them as answers.

`Validator` sends the client's request with the cached response's validator. The code
takes the `Host` line of that request with `find_first_of` (request.hpp:184), which
stops at the first of several characters, so an origin may not know the host: it then
answers with another status, which is one of the kinds.

Whether `checkExpire` finds a response fresh and whether a fresh one is
validated is left open in `Proxy` (both happen) and decided in `Freshness`.
Clients stay connected here; what a failing `send` does is in `Exchange` and
`Tunnel`, and what its signal does to the process in `Server`. Logging is left out.

### Freshness

`Read` is one turn of the loop over the headers in `get_cache_expire`, on the
fields the judgement uses; `Expired` is `checkExpire`, `NeedsValidation` the
predicate of `proxyGET`, `LoggedExpiry` what `receiveLog` announces. A header is
the value it means: dates and ages are numbers or `None`; `strptime` returning
an error is -1. The clock is a variable, headers arrive in any order and
number, the same name repeatedly. `Requests` is every combination of request
directives after `getHostIp`. The container runs in UTC, where `mktime` is the
inverse of the header's date; another time zone would shift `Expires`.

`proxyGET` uses two responses: `checkExpire` judges the one it finds by its own lookup,
and the one that `get` returned is tested for directives and sent. `ServedDirectly`
has both as arguments, and the properties quantify over what may have been found
(`Judged`): the same one, or one that has just been put in its place.

The properties compare the numbers with what the headers say, kept in `headers` and in
`dated`, the times at which the `Date` headers were read. Ages are of any size, also
above the clock: a response without a `Date` counts as received at the epoch and is
expired at once, unless its max-age is more seconds than the clock shows
(2147483647 is an `int`), when it is fresh. `ExpiredIsRight` says that much of it.

### Streams and Tunnel

`script` is what each of the two programs would say, `sent` how much of it is on
the way, `taken` how much the proxy has received, `got` what the proxy has handed
to each side, `buf` the vector in hand. A `recv` takes what has come, up to the
length asked for; a `send` hands over one byte or more. `link` is what the
kernel knows of a connection: open, ended, reset (the next call reports it), or
dead (a `send` raises SIGPIPE). After the receive queue is empty the first call
after a reset returns -1; a reset that follows the peer's close kills at the
first send. The receive timeout, which `recvChar` sets on the descriptor, and a
`recv` of 0 bytes look the same to the code (`TakeNothing`).

| proxy.cpp | action |
|---|---|
| 267-278, the 200 | `Respond` |
| 284 `select` | `Select` |
| 291-292, the scan in the order of descriptors | `Scan`; `low` is the side with the smaller one |
| 294-300 `recvChar`, and the end | `Recv` |
| 301-310 `sendall` | `Send` |

`buf` at `recv` is filled by one system call at a time, so the peers may send,
close and reset between two of them. `select` failing is not modelled: with two
open descriptors below FD_SETSIZE it does not. `Pipes` says what the README
calls the tunnel: two pipes and a close.

### HttpParser and Exchange

A byte is a lexeme: a run of characters that one state of an automaton consumes
(a method, a header's name, a word), or one character where single characters
matter: CR, LF, space, the delimiters, letters and digits of sizes. The branches
that only change the state are a table (`...Edges`); a state and character
without a branch is `ParsingError`. The others are `EmptyLine`, `ReadPost`,
`ReadChunkData`, `EndOfSize`, and `Noted` and `Evaluated` for what is remembered.
`Consume` is one turn of the loop. Both parsers work on all the bytes at hand, once:
`parse` is called for a new parser each time, so there is no state between calls.
`Number` reads the digits 0 to 2; `x` stands for a letter that is no hexadecimal
digit. `Atoi` skips blanks and `Strtol` a `0x` before it. `junk` stands for control
characters and `high` for bytes above 127: header values take the second kind, reason
phrases the first.

The grammar is the reference the automata are compared with. A message has a first
line, header lines with any text, some of them continued on a second line, before
and after the one that tells its length, and no body, a body of a length, or one in
chunks with sizes in any digits, extensions and a trailer; `Bytes(m)` writes it as
its sender means it. `IsRequest` and `IsResponse` are the messages that the code
means to read: a request has a body only with POST and PUT, and a response has a
reason phrase (what happens without one is the run `exchange_length`).
`ReadWhole` says that the automaton completes at the last byte, at no earlier one,
and has the content.

`Exchange` is `runProxy1` from `recvBuff` to the end of `proxyFetch`:
`ReceiveRequest`, `SendError` (400, 502), `Forward`, `ReceiveAnswer` with
`check502` and the search for `chunked` (`ChunkedHead` with the code's own
`substr(start, end)`), `Reply`, and `SendChunk`, `ReceiveChunks`, `ChunksEnd` of
`chunkHandle`. `kept` is the response that `proxyFetch` returns, which `proxyGET`
then offers to the cache. Connecting is left to `Server` and `Proxy`; the
validation uses the same three calls. After chunks that do not parse `proxyFetch` goes
on as if the answer were not chunked and sends its beginning again: `ChunksEnd` leads
back to `Reply`, `StartedOver` names the case, and `AnsweredInOrder` allows a
repetition in no other (the run `exchange_repeat` shows it). `Messages` are the messages that clients and
origins mean to send: a client sends one (`MessageAssumption`), an origin may send
anything, and its answer is `Framed` if it is one of them.

### Server

`fds` is the process's descriptor table, `thread` the Proxy object of each
connection with its thread, `conn` the connection as the client sees it.
`socket_server` is `connectServer`'s local variable: when `connect` fails nothing
else knows the descriptor. A new descriptor is the lowest free one, so numbers
are used again at once.

The constructor in use leaves `server_des` unset (proxy.hpp:30-31), which the model
writes as NULL. A thread that never connected reads it in `~Proxy`: `CloseServer` then
closes any descriptor of the process, or none. The listener's is among them, and those
of other threads. (The three standard descriptors are not in the model, so what
becomes of the log or of standard output is not.) `stray` records whether that has
happened. When a descriptor is closed under a call that is blocked on it, `accept`,
`recv` or `select`, the call keeps the socket until it returns, so the connection
lives on for that long (`Waits`, `Returned`), or it was just between two calls
(`held` in `Close`).

`accept` on a descriptor that is no listener fails at once, and `proxyListen` calls it
again, for ever: `deaf`. The process does not end, so `run.sh` does not start it
again, and the clients waiting in the listener's queue are cut off. A thread may get
the same number for its socket; `accept` fails on that too.

`Killed` is SIGPIPE at any place where a thread sends; `Dies` closes everything,
and `Start` is `run.sh`'s next turn. A connection that is closed may be followed
by another one, so the model never stops.

## Runs

| run | question | bounds |
|---|---|---|
| `cache` | between any two writes of a `put`, are list, map and ownership as they should be; is it an atomic LRU cache; how long is `get`'s late read safe? | 3 threads, 3 urls, 4 responses, capacity 2 with 2 addresses: eviction, reuse of memory, an update and an eviction by different threads while a third reads; two evictions with hits that change the victim |
| `proxy_get` | GETs only: is what `get` returns of the url, and is what is served what was judged, while responses are replaced and deleted? | 3 threads, 2 urls, capacity 2: no evictions, so `HeldIsOfUrl` holds without its hypothesis (`cache_get` shows what an eviction does); 2 versions of each document, with and without validators and conditions |
| `proxy_answers` | all methods and all kinds of answers: one answer or a beginning of one, silence only after a failure, nothing cached that was not sent whole, and does every request end? | 2 threads, 2 urls, capacity 1: evictions, crashes; 2 versions of each document; origins that send no-store are in `proxy_nostore` |
| `freshness_judge` | are the verdicts what the headers say? | up to 3 headers that matter, clock 3 to 5, ages 0, 2 and 9, so one is above the clock, dates 0, 3 and 5 |
| `tunnel` | does the tunnel carry both streams, whole and in order, end when a side does, and starve none? | scripts of 2 and 3 bytes, buffers of 2: full, short and empty reads, partial sends, both orders of the descriptors; every close and reset at every point |
| `exchange` | is what is forwarded, sent back and kept whole and in order? | a GET, a POST with a length and one in chunks; answers without a body, with a length, in chunks, up to the close, and malformed; `recvBuff` takes 22 lexemes, `recvChar` 4: one answer is longer than the first, several are multiples of the second; the automata on 300 messages of the grammar: every kind of body, sizes of one and two digits and with leading zeros, headers before and after the length, continued or not, extensions, trailers |
| `server` | is every descriptor accounted for, does harm come from nowhere else than an unset `server_des`, and is every connection closed, through crashes? | 2 connections, each repeated for ever, 4 descriptors: the listener, two clients and one for a server, so they run out |

Five more runs expect a violation: `cache_get`, `proxy_nostore`, `proxy_alive`,
`exchange_length` and `exchange_repeat` (below).

Two threads suffice for a race of two calls; three are used where a third makes
the memory of the first two change hands. Capacity 1 or 2 makes eviction happen
with two or three urls; the code treats all capacities alike, and `CacheProofs`
covers the rest. The ages and dates lie before, at and after the clock's values.
The buffers are smaller than what is sent, which is what matters about 65536 and
20480; `TunnelProofs` and `ExchangeProofs` cover other sizes and scripts.

Symmetry is used for invariants and for the refinement, whose formula does not
name an element of the symmetric sets; the runs of liveness properties have
none. The system may stop when every thread is done, which `Proxy`, `Tunnel` and
`Exchange` show as a step of their own (`AllDone`, `Over`), so deadlock is checked
in every run. No call of the cache waits for anything but the mutex.

### Fairness

`FairProxySpec`: weak fairness of each thread's own steps while the process lives (the
operating system's scheduler), of the origin's answering (an origin that closes or
resets counts as an answer) and of the tunnel's closing. The last two are assumptions
about the outside: `recvBuff` and `select` have no timeout, so an origin that
accepts and stays silent holds its thread for ever. Nothing is assumed of
arrivals, and `EveryRequestEnds` ends with the process when that crashes. Weak
fairness is enough for the mutex in the small instance because
each thread makes finitely many calls: starvation by an endless stream of other
callers is not excluded by `std::mutex` and not claimed.

`FairSpec` of `Tunnel` and `Exchange`: weak fairness of the thread, which includes
that a `send` goes on, because the other program reads some time; two programs that
both write and never read would hold a tunnel for ever (proxy.cpp:304). Nothing is
assumed of what the programs send, close or reset: `AnsweredEnds` and
`TunnelEnds` hold for peers that fall silent.

`FairSpec` of `Server`: weak fairness of `Start` and of what a thread does without
waiting for a peer (`Prompt`; `connect` returns, if only by its own timeout); strong
fairness of `accept` for each connection, because the kernel hands connections over in
the order in which they came, and the descriptor each needs is free again and again
rather than always. Nothing is assumed of the peers: a client may send no request and
an exchange or a tunnel may never end, because `recvBuff` and `select` have no timeout.
`Request` and `Exchange` therefore have no fairness, and both liveness properties say
so: `EveryConnectionEnds` of a connection whose own thread does not wait for ever
(`[]<>~Waits(c)`), `EveryClientAccepted` if no thread does, since threads that wait hold
the descriptors that the next client needs.

### What the code does otherwise than its documents say

Each of these runs checks one sentence of a document or comment and TLC finds a
behaviour of the model that contradicts it.

| run | sentence | what happens |
|---|---|---|
| `cache_get` | "get response pointer from the cache using URI" (cache.hpp:22) | the entry is read after the unlock; by then it may have been evicted and its memory given to another url |
| `proxy_nostore` | "if 1, cannot cache" (response.hpp:29) | `HandleValidation` puts every 200 without asking `no_store` |
| `proxy_alive` | the response "will not be delete after one request finish" (README.md:13) | a `put` of another request deletes the response that a thread is about to send or to validate |
| `exchange_length` | "our parser will fail if it checks the *Content-Length* doesn't match" (README.md:20) | an empty reason phrase takes the first header with it; without its length, half an answer parses and is kept |
| `exchange_repeat` | "this is the same effect as we use the direct connection" (README.md:25) | chunks that do not parse, a pause is enough, make `proxyFetch` send their first part again (proxy.cpp:549) |

Seen on the way, each visible in one place of the code or a variant of the above,
and not given a run:

* A 304 to the client's own condition, sent on because the cached response has no
  validator, makes the proxy send that older response (proxy.cpp:600), against
  "304 Not Modified which means we could directly send the cached response back"
  (README.md:23).
* A fresh response with max-age is validated although nobody asked
  (proxy.cpp:407), against "request or response: no-cache or must-revalidate"
  (proxy.cpp:405); `min-fresh` makes direct service more likely, not less.
* `checkExpire` looks the url up again and may judge a newer response than the one
  `get` returned (proxy.cpp:375): the older one is then sent, although its time, which
  the log has announced, may be over. `StableMeansJudged` and `LoggedExpiryHolds` say
  what remains true.
* `checkExpire` does not lock, so it may crash on the hash table that a `put` is
  changing or on the iterator it has not assigned yet, against "True: expired or not
  found" (cache.hpp:85).
* An `Expires` at the epoch counts as none (cache.hpp:104; `ExpiredIsRight`
  excludes it). A response without a `Date` and with a max-age above the clock's value
  is fresh.
* A validation answer that does not parse, or that comes in more than one segment or
  one `recv` cannot hold, leaves the client without any (proxy.cpp:640); the comment
  at 641-642 says that it gets a 502. `SilentOnlyOnFailure` confines the silence to
  this and to broken connections. A 304 with a Content-Length never parses: the
  automaton waits for the body.
* An answer that ends with the connection completes at its head: the first `recv`
  of it is sent, and kept for the cache, as the whole; of an answer longer than
  one `recv` that tells its length the client gets a part, but it is not kept.
* A body in a second segment makes the request a 400.
* The LF of the empty line is not looked at when a body follows; a header that is
  continued on a second line is not evaluated.
* In a tunnel, what one side still had to say when the other closed is lost, also
  after a half-close; a side that fills the buffer without pause keeps `recvChar`
  in its loop.
* A thread that never connected may close a descriptor of another thread, or the
  listener's (proxy.hpp:31, see Server above). Without its listener the proxy accepts
  nobody any more, and since it does not end, `run.sh` does not start it again, against
  README.md:29, which has it run as a daemon.
* The socket of a connect that fails is never closed (proxy.cpp:243). After enough
  of them every request that needs a server gets a 404; clients are still
  accepted (`EveryClientAccepted`), because each thread closes its client's socket.
* Responses that are evicted or not cached are never deleted (cache.hpp:71,
  proxy.cpp:368).
* `std::stoi` throws on a directive without a number, so that a request gets no
  answer (request.hpp:174).

## Proofs

`CacheProofs` proves for every set of threads, urls, responses and addresses and
every capacity: the type invariant, how map and list agree between any two writes
(`ListMapAgree`), the capacity bound,
mutual exclusion, that what is cached is alive, single ownership, and that no
response is deleted twice. Assumptions: `CapacityAssumption` (capacity at least
1) and `NullAssumption` (NULL is no thread, url, response or address, `Wild` no
response).

They are not inductive one by one. `IInv` adds `CallsAgree`, what a thread inside
`put` knows (its iterator is still the url's; after a miss the url still has no
entry; what it has erased it has still to pop, and what it has put in front is not in
the map yet), and `EntriesGiven` (cached responses have been handed to put). The
deleted response of `PutFound` is in no other entry because of `OneOwner`; a new
response cannot be cached already because of `EntriesGiven`; the list has room
at `PutInsert` because `CapacityRespected` speaks of that point; and only the
holder of the mutex is between the writes of a `put` because of `LockDiscipline`.
The proof has a lemma for each list operation (`splice`, `emplace_front`,
`pop_back`), one for each action under the mutex, and one (`OutsideLemma`) for
all the steps that change only their thread's call.

`CacheLRUProofs` proves the refinement of `LRUCache`. `LRUInv` says how the list
stands to the promise: while the mutex is free, `i - 1` urls have been used since
that of the i-th entry was and `Capacity` since one without an entry; between the
writes of a `put` its url counts as used already (`UpdateAhead`, `InsertAhead`,
`Inserted`). From it and `IInv` follows `CachedIsRecent`: in every state, what is
cached is what the promise says. A step that uses a url is then a step of `LRUCache`,
and every other one a stutter, the other writes of a put too.

`GetIsSafe` says how long `get` may rely on the iterator that it reads after its
unlock, with evictions, for every capacity: until as many other urls as the capacity
have been used. `SinceInv` has the reason: as long as the entry is the url's, every
url that is ahead of it in recency has been used since the unlock; so when the entry
is evicted, all the others in the full list have been, and the new one.

`ProxyProofs` shows that every behaviour of `ProxySpec` satisfies the `Spec` of
`Cache`: the threads call `get`, `put` and `checkExpire` with known urls, and hand
each response to `put` once. So all the theorems about `Cache` hold of the
running proxy. The invariant it needs is that a thread past `accepted` has a
request (`RequestKnown`). What origins say is assumed to be of their types
(`OriginAssumption`).

It also proves `CachedIsOK` of the running proxy. What is in the list may be a
response that another thread is about to put, so the invariant (`OKInv`) follows a
response on its way: a thread that has handed its response to `put` is at a place
where it does not assign to it again (`HandedOver`), and every call of `put` under
way brings a 200 under its own url (`PutIsOK`). `StepEffect` says what a step inside
the cache can do to an entry, from the theorems of `CacheProofs`. That the client got
the whole of it follows a thread to its end (`SentInv`).

`OneAnswer` is proved for all kinds of answers and all ways of receiving them, with no
hypothesis about origins. The invariant (`AnswerInv`) ties what a thread has sent to its
place: nothing up to the fetch, a head while the chunks come, a whole answer when a
response is offered to the cache, and at the end an answer or one of the beginnings
that `OneAnswer` names. `SilentOnlyOnFailure` follows from it: of the steps that end a
thread, each one that is not excepted sends something.

For `NotModifiedMeansCurrent` the invariant (`AskInv`) follows a found response from
`get` to the validation: it has been handed to `put` (`Found`), so nobody assigns to
it any more, the version asked with is its own, and a 304 names the version asked
with. For `StableMeansJudged` it says (`JudgeInv`) that a response which a put is
still to place has been seen by no thread. Hence a response that a thread holds
can leave its url but never come back under it, and while it stays, `checkExpire`
finds its entry.

`HeldIsOfUrl` is a theorem of every behaviour in which each `get` reads the entry that
it found (`[]GetReadsItsUrl`), however many urls there are and whatever is evicted. The
run `cache_get` shows that the code does not guarantee the hypothesis, and
`GetIsSafe` when it holds: while fewer other urls than the capacity, 500, are used
between an unlock and the next statement. The invariant (`Finds`) follows the url from
the call of `get` over the entry to the response, which is one that was handed to `put`
under that url (from `CachedIsOK`'s invariant) and is not assigned to any more, also
when it has been replaced and deleted meanwhile.

`ProxyTypeOK` is inductive only with what a place implies (`Filled`): a response that
was handed to `put` has been filled in, `checkExpire` returns a response, freed memory or
nothing, and a thread that waits for its update still has the answer; and with
`AskInv`, which says what the thread holds when it asks for a validation.

`FreshnessProofs` proves for all ages, dates, clocks and numbers of headers that
the numbers keep their ranges, that a request's max-age only tightens the
verdict, that the logged expiry is kept by the response that was judged, that
directives are kept whatever was judged, and that the
verdict is the one the headers call for (`ExpiredIsRight`), by two invariants: a
flag is set exactly if some header carries it (`FlagsAgree`), and a number is that
of the last header that declares it (`NumbersAgree`). Nothing is assumed of the clock, and of the ages that
they are not negative: the directives of HTTP are digits. (`stoi` would also read a
sign, and -1 would then count as no max-age.)

`ServerProofs` proves type correctness, `Accounted`, `OnlyStraysHarm` and
`ClosedWithThread` for any connections and any limit of descriptors, with a
`server_des` of any value where it was not set. Its assumption (`NullAssumption`)
is that NULL is no connection and no descriptor. The inductive invariant adds where
each field is set (`ThreadsOK`) and that nothing is left when the process is down.
`ClosedWithThread` and `Accounted` hold although a thread may close the descriptor of
another: who loses one is no longer its owner, and its connection is closed or in a
call that holds it. `OnlyStraysHarm` is the other half: a thread that closes what it
has set closes its own, because no two sockets have the same descriptor until then.

`WireProofs` has the lemmas about `recv` and `send`: what each leaves of the script,
of `got` and of `buf`; and the theorems about the automata. Whatever bytes come, a parser keeps its types, and the lengths that are counted
down, which are unsigned in the code, never pass 0 (`ParsersTypeCorrect`). And every
message of the grammar is read whole (`ResponsesReadWhole`, `RequestsReadWhole`): with
any number of headers, chunks and trailer lines, of any length, any sizes and any text.
The argument is `Finishes(p, b)`: from state `p` the bytes `b` complete at their last
byte and pass no final state before it. It is composed from the parts of a message:
`RunConcat` says that reading two parts is reading one after the other, each kind of
line leads from its state to the next one and leaves alone what later parts need
(`Keeps`), a chunk leaves the parser at the next size with the digits cleared, which
the trailer relies on. Sizes and counted bodies are by induction over their digits and
bytes, lists of lines and chunks by induction over the list. The library's induction
rules take an operator as their parameter, which the provers cannot instantiate;
`WFMin` of `WellFoundedInduction` speaks of sets: the least number of which a statement
fails would be a member of the set of those, and its predecessor is not. `Number`,
`Run` and `Concat` are recursive functions for that reason, each with a lemma that says
it satisfies its equation.

`TunnelProofs` uses the first half for the four invariants and for the refinement of
`Pipes`, for every script and both buffer sizes. Its inductive invariant is `Conserved`
together with what is known at each place: the side being relayed was readable and has
not been visited, `buf` is not empty when it is to be sent, and a tunnel that has ended
found its side empty.

`ExchangeProofs` proves the exchange's six invariants, for all messages and buffer sizes,
all cuts of the streams, and all answers, also those outside the grammar. From the
theorems of `WireProofs` it has that no proper part of a request, and none of a framed
answer, completes (`RequestsEnd`, `FramedAnswersEnd`), and that what has completed stays
so (`EndsAreFinal`); `ParsersRight` is these three, `GrammarRead` and what is kept. The invariant says
what `buf`, `input`, `total` and `got` are at each place as parts of the scripts; in
particular that a first part sent twice is one that did not parse, behind chunks that
did not parse either (`StartedOver`).

Only model-checked are the liveness properties (`EveryRequestEnds`, `TunnelEnds`,
`EverythingArrives`, `AnsweredEnds`, `EveryClientAccepted`, `EveryConnectionEnds`):
liveness under fairness is outside the prover's reach. Every other property of a run
that passes is a theorem, `HeldIsOfUrl` under the hypothesis named above. Two theorems
are no property of a run, because they follow from others: that no response is deleted
twice (`NoDoubleDelete`), and that the end of a tunnel is never a pause
(`NeverAPause`). The properties of the runs that expect a violation do not hold.

## Not modelled

* The log: a mutex around one append, held over nothing else, and text.
* Host-name resolution, beyond that it may fail.
* In the parsers: the characters that make up a method, uri, version and status
  code, the `keepAlive` flag and `inspect()`, which the proxy never uses.
* Memory: leaks are named above, allocation failures are not modelled.
* FD_SET's limit of 1024 and the overflow of `requestID`.
* `runProxy` (nobody calls it), `Preworks/`, the build and container files.
