----------------------------- MODULE Freshness -----------------------------
(***************************************************************************)
(* How long a cached response may be served.  get_cache_expire of           *)
(* response.hpp reads the headers of a response one by one into a few       *)
(* numbers with sentinels: EXPIRES = 0 and max_age = -1 for "not declared". *)
(* checkExpire (cache.hpp) and proxyGET (proxy.cpp) later judge those       *)
(* numbers against the clock and the Cache-Control of a request, which      *)
(* getHostIp of request.hpp has read in the same way.                       *)
(*                                                                          *)
(* A header is what its value means: parsing text is left out, except that  *)
(* strptime may reject a date.  Time is in seconds since the epoch; the     *)
(* proxy runs where local time is UTC.                                      *)
(***************************************************************************)
EXTENDS Integers, Sequences

CONSTANTS
    Ages,        \* values of max-age, max-stale and min-fresh
    Dates,       \* values of Expires
    Start,       \* the clock when the proxy starts
    MaxTime,     \* bound on the clock
    MaxHeaders,  \* bound on the headers of a response that matter here
    None         \* a directive that is absent, a date that does not parse

ASSUME AgesAssumption == Ages \subseteq Nat
ASSUME DatesAssumption == Dates \subseteq Nat
ASSUME TimeAssumption == Start \in Nat
ASSUME NoneAssumption == None \notin Int

VARIABLES
    now,      \* time(0)
    headers,  \* the headers read so far of the response at hand
    dated,    \* when each Date among them was read
    resp,     \* its Date, EXPIRES, max_age, no_store and no_cache
    cached    \* it has been parsed and put in the cache

vars == <<now, headers, dated, resp, cached>>

Flags == {"no-store", "private", "no-cache", "must-revalidate"}

Headers ==
    [name : {"Cache-Control"}, maxAge : Ages \cup {None}, flags : SUBSET Flags]
        \cup [name : {"Expires"}, at : Dates \cup {None}]
        \cup {[name |-> "Date"]}

\* Cache-Control of a request, as parsed: -1 and 0 where nothing is asked.
Requests == [maxAge : Ages \cup {-1}, maxStale : Ages \cup {0},
             minFresh : Ages \cup {0}, noCache : BOOLEAN]

-----------------------------------------------------------------------------
(* http_Response.                                                           *)

\* The constructor.
Undeclared == [date |-> 0, expires |-> 0, maxAge |-> -1,
               noStore |-> FALSE, noCache |-> FALSE]

\* no_store and no_cache are set by a flag and never cleared.
Assigned(old, h, flags) == h.flags \cap flags # {}    \* mutant: the last header decides
Raised(old, h, flags) == old \/ h.flags \cap flags # {}

\* stringTotime
RawDate(h) == h.at                                   \* mutant: no result for a bad date
DateOf(h) == IF h.at = None THEN -1 ELSE h.at

\* One turn of the loop of get_cache_expire.  Date gets the time at which the
\* header is read, not the one it names.
Read(f, h) ==
    CASE h.name = "Cache-Control" ->
            [f EXCEPT !.maxAge = IF h.maxAge = None THEN @ ELSE h.maxAge,
                      !.noStore = Raised(@, h, {"no-store", "private"}),
                      !.noCache = Raised(@, h, {"no-cache", "must-revalidate"})]
      [] h.name = "Expires" -> [f EXCEPT !.expires = DateOf(h)]
      [] h.name = "Date" -> [f EXCEPT !.date = now]

-----------------------------------------------------------------------------
(* checkExpire, calFresh, proxyGET, receiveLog.                             *)

LongerAge(a, b) == IF a < b THEN b ELSE a            \* mutant: always the longer
MinMaxAge(a, b) ==
    IF a # -1 /\ b # -1 THEN (IF a > b THEN b ELSE a)
                        ELSE (IF a < b THEN b ELSE a)

ExpiredByAge(f, rmax, t) ==                          \* mutant: EXPIRES not looked at
    LET age == MinMaxAge(f.maxAge, rmax) IN
    ~(t - f.date < age \/ age = -1)

Expired(f, rmax, t) ==
    LET age == MinMaxAge(f.maxAge, rmax) IN
    ~ /\ (t - f.date < age \/ age = -1)
      /\ (t < f.expires \/ f.expires = 0)

CalFresh(q) == q.maxStale - q.minFresh

NeedsValidation(f, q, t) ==
    q.noCache \/ f.noCache \/ f.maxAge + CalFresh(q) + f.date > t

\* proxyGET with a hit: whether held, which get returned, is sent without asking
\* the origin.  checkExpire looks the url up again, and what it judges may be
\* another response, put meanwhile.
ServedDirectly(held, judged, q, t) ==
    ~Expired(judged, q.maxAge, t) /\ ~NeedsValidation(held, q, t)

\* "cached, expires at", None for Not Declared.
ExpiresLogged(f) ==                                  \* mutant: Date left out
    IF f.maxAge = -1 /\ f.expires = 0 THEN None
    ELSE IF f.maxAge # -1 THEN f.maxAge ELSE f.expires
LoggedExpiry(f) ==
    IF f.maxAge = -1 /\ f.expires = 0 THEN None
    ELSE IF f.maxAge # -1 THEN f.date + f.maxAge ELSE f.expires

-----------------------------------------------------------------------------
Init ==
    /\ now = Start
    /\ headers = << >>
    /\ dated = << >>
    /\ resp = Undeclared
    /\ cached = FALSE

ReadHeader(h) ==
    /\ ~cached /\ Len(headers) < MaxHeaders
    /\ headers' = Append(headers, h)
    /\ dated' = IF h.name = "Date" THEN Append(dated, now) ELSE dated
    /\ resp' = Read(resp, h)
    /\ UNCHANGED <<now, cached>>

\* All headers read: proxyGET puts a response fetched on a miss unless no_store
\* is set.  (The put of HandleValidation has no such guard: Proxy, ValidateOK.)
Put ==
    /\ ~cached /\ ~resp.noStore
    /\ cached' = TRUE
    /\ UNCHANGED <<now, headers, dated, resp>>

\* The response was not put, or is replaced: the next one arrives.
NextResponse ==
    /\ cached \/ resp.noStore
    /\ headers' = << >>
    /\ dated' = << >>
    /\ resp' = Undeclared
    /\ cached' = FALSE
    /\ UNCHANGED now

Tick ==
    /\ now < MaxTime
    /\ now' = now + 1
    /\ UNCHANGED <<headers, dated, resp, cached>>

Next == (\E h \in Headers : ReadHeader(h)) \/ Put \/ NextResponse \/ Tick

Spec == Init /\ [][Next]_vars

-----------------------------------------------------------------------------
(* What the headers say, independently of the numbers.                      *)

Named(n) == {i \in DOMAIN headers : headers[i].name = n}

LastOf(S) == CHOOSE i \in S : \A j \in S : j <= i

DeclaresAge == {i \in Named("Cache-Control") : headers[i].maxAge # None}

Has(flags) == \E i \in Named("Cache-Control") : headers[i].flags \cap flags # {}

\* Older than a.  Without a Date a response counts as of the epoch: too old for
\* any limit, except one of more seconds than the clock shows.
Received == IF dated = << >> THEN 0 ELSE dated[Len(dated)]
Outlived(a) == now >= Received + a

PastItsDate ==
    Named("Expires") # {} /\ LET d == headers[LastOf(Named("Expires"))].at IN d = None \/ now >= d

PastItsAge == DeclaresAge # {} /\ Outlived(headers[LastOf(DeclaresAge)].maxAge)

\* What checkExpire may judge when get has returned resp: that one, or one that
\* has been put in its place just now, the least likely to be found expired.
Judged == {resp, [Undeclared EXCEPT !.date = now]}

-----------------------------------------------------------------------------
(* Properties.                                                              *)

TypeOK ==
    /\ now \in Nat
    /\ headers \in Seq(Headers)
    /\ dated \in Seq(Nat)
    /\ resp \in [date : Nat, expires : Int, maxAge : Int,
                 noStore : BOOLEAN, noCache : BOOLEAN]
    /\ resp.maxAge >= -1 /\ resp.expires >= -1 /\ resp.date <= now
    /\ cached \in BOOLEAN

\* checkExpire judges a response expired exactly when its Expires is past or
\* no date, or it is older than its own or the request's max-age allows --
\* unless Expires is the epoch, which the sentinel 0 hides.
ExpiredIsRight ==
    0 \notin {headers[i].at : i \in Named("Expires")} =>
        \A a \in Ages \cup {-1} :
            Expired(resp, a, now) <=>
                PastItsDate \/ PastItsAge \/ (a # -1 /\ Outlived(a))

\* A max-age in the request can only make proxyGET stricter: what is expired
\* without it is expired with it.
RequestOnlyTightens ==
    \A a \in Ages : Expired(resp, -1, now) => Expired(resp, a, now)

\* "cached, expires at T" is kept by what checkExpire says: from T on the response
\* is sent without asking the origin, whatever the request says, only when
\* checkExpire found another one under the url and judged that.
LoggedExpiryHolds ==
    LET T == LoggedExpiry(resp) IN
    \A q \in Requests, judged \in Judged :
        /\ cached /\ T # None /\ now >= T
        /\ ServedDirectly(resp, judged, q, now)
        => judged # resp

\* One no-cache or must-revalidate in any Cache-Control header is enough to
\* have every request for the response validated, whatever checkExpire judged,
\* and one no-store or private keeps a response fetched on a miss out of the
\* cache.
DirectivesKept ==
    cached =>
        /\ ~Has({"no-store", "private"})
        /\ Has({"no-cache", "must-revalidate"}) =>
              \A q \in Requests, judged \in Judged : ~ServedDirectly(resp, judged, q, now)
=============================================================================
