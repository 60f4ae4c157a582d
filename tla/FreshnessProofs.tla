-------------------------- MODULE FreshnessProofs --------------------------
(***************************************************************************)
(* What holds of the freshness judgement for every age, date and clock.    *)
(***************************************************************************)
EXTENDS Freshness, TLAPS

(* The flags of the fields are those of the headers, however many there are, *)
(* and only a response without no_store is in the cache.                    *)
FlagsAgree ==
    /\ resp.noStore <=> Has({"no-store", "private"})
    /\ resp.noCache <=> Has({"no-cache", "must-revalidate"})
    /\ cached => ~resp.noStore

FInv == TypeOK /\ FlagsAgree

(* One header more raises a flag if it carries it and keeps the others.     *)
LEMMA HasAppend ==
    ASSUME NEW h \in Headers, headers \in Seq(Headers), headers' = Append(headers, h),
           NEW F
    PROVE  Has(F)' <=> Has(F) \/ (h.name = "Cache-Control" /\ h.flags \cap F # {})
<1> DEFINE n == Len(headers)
<1>1. /\ n \in Nat /\ Len(headers') = n + 1
      /\ DOMAIN headers = 1 .. n /\ DOMAIN headers' = 1 .. n + 1
      /\ \A i \in 1 .. n : i \in 1 .. n + 1 /\ headers'[i] = headers[i]
      /\ n + 1 \in 1 .. n + 1 /\ headers'[n + 1] = h
      /\ \A i \in 1 .. n + 1 : i = n + 1 \/ i \in 1 .. n
  OBVIOUS
<1> HIDE DEF n
<1> QED  BY <1>1 DEF Has, Named

LEMMA ReadTypes ==
    ASSUME TypeOK, NEW h \in Headers
    PROVE  /\ Read(resp, h) \in [date : Nat, expires : Int, maxAge : Int,
                                 noStore : BOOLEAN, noCache : BOOLEAN]
           /\ Read(resp, h).maxAge >= -1
           /\ Read(resp, h).expires >= -1
           /\ Read(resp, h).date <= now
           /\ Read(resp, h).noStore <=>
                 resp.noStore \/ (h.name = "Cache-Control" /\ h.flags \cap {"no-store", "private"} # {})
           /\ Read(resp, h).noCache <=>
                 resp.noCache \/ (h.name = "Cache-Control" /\ h.flags \cap {"no-cache", "must-revalidate"} # {})
<1>1. CASE h.name = "Cache-Control"
  <2> DEFINE age == IF h.maxAge = None THEN resp.maxAge ELSE h.maxAge
             ns == resp.noStore \/ h.flags \cap {"no-store", "private"} # {}
             nc == resp.noCache \/ h.flags \cap {"no-cache", "must-revalidate"} # {}
  <2>1. /\ resp \in [date : Nat, expires : Int, maxAge : Int,
                     noStore : BOOLEAN, noCache : BOOLEAN]
        /\ resp.maxAge \in Int /\ resp.maxAge >= -1
        /\ resp.expires >= -1 /\ resp.date <= now
    BY DEF TypeOK
  <2>2. age \in Int /\ age >= -1
    <3>1. h.maxAge \in Ages \cup {None}
      BY <1>1 DEF Headers
    <3>2. CASE h.maxAge = None
      BY <3>2, <2>1
    <3>3. CASE h.maxAge # None
      <4>1. h.maxAge \in Nat
        BY <3>1, <3>3, AgesAssumption
      <4> QED  BY <4>1, <3>3
    <3> QED  BY <3>2, <3>3
  <2>3. Read(resp, h) = [resp EXCEPT !.maxAge = age, !.noStore = ns, !.noCache = nc]
    BY <1>1, <2>1 DEF Read, Raised
  <2>4. ns \in BOOLEAN /\ nc \in BOOLEAN
    OBVIOUS
  <2> HIDE DEF age, ns, nc
  <2>5. Read(resp, h) = [date |-> resp.date, expires |-> resp.expires, maxAge |-> age,
                         noStore |-> ns, noCache |-> nc]
    BY <2>1, <2>3
  <2>6. /\ Read(resp, h) \in [date : Nat, expires : Int, maxAge : Int,
                              noStore : BOOLEAN, noCache : BOOLEAN]
        /\ Read(resp, h).maxAge >= -1
        /\ Read(resp, h).expires >= -1
        /\ Read(resp, h).date <= now
    BY <2>1, <2>2, <2>4, <2>5
  <2>7. Read(resp, h).noStore = ns /\ Read(resp, h).noCache = nc
    BY <2>5
  <2> QED  BY <1>1, <2>6, <2>7 DEF ns, nc
<1>2. CASE h.name = "Expires"
  <2>1. h.at \in Dates \cup {None}
    BY <1>2 DEF Headers
  <2> QED  BY <1>2, <2>1, DatesAssumption DEF Read, DateOf, TypeOK
<1>3. CASE h.name = "Date"
  <2>1. /\ resp \in [date : Nat, expires : Int, maxAge : Int,
                     noStore : BOOLEAN, noCache : BOOLEAN]
        /\ resp.maxAge >= -1 /\ resp.expires >= -1 /\ now \in Nat
    BY DEF TypeOK
  <2>2. Read(resp, h) = [resp EXCEPT !.date = now]
    BY <1>3 DEF Read
  <2>3. Read(resp, h) = [date |-> now, expires |-> resp.expires, maxAge |-> resp.maxAge,
                         noStore |-> resp.noStore, noCache |-> resp.noCache]
    BY <2>1, <2>2
  <2>4. now <= now
    BY <2>1
  <2> QED  BY <1>3, <2>1, <2>3, <2>4
<1> QED  BY <1>1, <1>2, <1>3 DEF Headers

(* The constructor's values.                                                *)
LEMMA UndeclaredTypes ==
    /\ Undeclared \in [date : Nat, expires : Int, maxAge : Int,
                       noStore : BOOLEAN, noCache : BOOLEAN]
    /\ Undeclared.date = 0 /\ Undeclared.expires = 0 /\ Undeclared.maxAge = -1
    /\ ~Undeclared.noStore /\ ~Undeclared.noCache
<1>1. -1 \in Int /\ 0 \in Nat /\ 0 \in Int
  OBVIOUS
<1> QED  BY <1>1 DEF Undeclared

(* No header, no flag.                                                      *)
LEMMA FreshFields ==
    ASSUME headers = << >>, dated = << >>, resp = Undeclared, now \in Nat, cached = FALSE
    PROVE  FInv
<1>1. headers \in Seq(Headers) /\ DOMAIN headers = {} /\ dated \in Seq(Nat)
  OBVIOUS
<1>2. TypeOK
  <2>1. /\ resp \in [date : Nat, expires : Int, maxAge : Int,
                     noStore : BOOLEAN, noCache : BOOLEAN]
        /\ resp.date = 0 /\ resp.expires = 0 /\ resp.maxAge = -1
    BY UndeclaredTypes
  <2>2. resp.maxAge >= -1 /\ resp.expires >= -1 /\ resp.date <= now
    BY <2>1
  <2> QED  BY <1>1, <2>1, <2>2 DEF TypeOK
<1>3. ~Has({"no-store", "private"}) /\ ~Has({"no-cache", "must-revalidate"})
  BY <1>1 DEF Has, Named
<1> QED  BY <1>2, <1>3, UndeclaredTypes DEF FInv, FlagsAgree

LEMMA FInvInit == Init => FInv
BY FreshFields, TimeAssumption DEF Init

LEMMA FInvStep == FInv /\ [Next]_vars => FInv'
<1> SUFFICES ASSUME FInv, [Next]_vars PROVE FInv'
  OBVIOUS
<1> USE DEF FInv
<1>1. ASSUME NEW h \in Headers, ReadHeader(h) PROVE FInv'
  <2>1. /\ headers' = Append(headers, h) /\ resp' = Read(resp, h)
        /\ now' = now /\ cached' = cached /\ cached = FALSE
    BY <1>1 DEF ReadHeader, TypeOK
  <2>2. TypeOK'
    <3>1. dated' \in Seq(Nat)
      BY <1>1 DEF ReadHeader, TypeOK
    <3> QED  BY <2>1, <3>1, ReadTypes DEF TypeOK
  <2>3. headers \in Seq(Headers)
    BY DEF TypeOK
  <2>4. FlagsAgree'
    BY <2>1, <2>3, ReadTypes, HasAppend DEF FlagsAgree
  <2> QED  BY <2>2, <2>4
<1>2. CASE Put
  BY <1>2 DEF Put, TypeOK, FlagsAgree, Has, Named
<1>3. CASE NextResponse
  <2>1. /\ headers' = << >> /\ dated' = << >> /\ resp' = Undeclared
        /\ now' \in Nat /\ cached' = FALSE
    BY <1>3 DEF NextResponse, TypeOK
  <2>2. headers' \in Seq(Headers) /\ DOMAIN headers' = {} /\ dated' \in Seq(Nat)
    BY <2>1
  <2>3. TypeOK'
    <3>1. /\ resp' \in [date : Nat, expires : Int, maxAge : Int,
                        noStore : BOOLEAN, noCache : BOOLEAN]
          /\ resp'.date = 0 /\ resp'.expires = 0 /\ resp'.maxAge = -1
      BY <2>1, UndeclaredTypes
    <3>2. resp'.maxAge >= -1 /\ resp'.expires >= -1 /\ resp'.date <= now'
      BY <2>1, <3>1
    <3> QED  BY <2>1, <2>2, <3>1, <3>2 DEF TypeOK
  <2>4. ~Has({"no-store", "private"})' /\ ~Has({"no-cache", "must-revalidate"})'
    BY <2>2 DEF Has, Named
  <2> QED  BY <2>1, <2>3, <2>4, UndeclaredTypes DEF FlagsAgree
<1>4. CASE Tick
  BY <1>4 DEF Tick, TypeOK, FlagsAgree, Has, Named
<1>5. CASE UNCHANGED vars
  BY <1>5 DEF vars, TypeOK, FlagsAgree, Has, Named
<1> QED  BY <1>1, <1>2, <1>3, <1>4, <1>5 DEF Next

THEOREM FreshnessInvariance == Spec => []FInv
BY FInvInit, FInvStep, PTL DEF Spec

(* The numbers keep their ranges; Date never lies ahead of the clock.       *)
THEOREM FreshnessTypes == Spec => []TypeOK
<1>1. FInv => TypeOK
  BY DEF FInv
<1> QED  BY <1>1, FreshnessInvariance, PTL

(* A request's max-age never makes checkExpire more lenient.                *)
THEOREM OnlyTightens == Spec => []RequestOnlyTightens
<1>1. TypeOK => RequestOnlyTightens
  <2> SUFFICES ASSUME TypeOK, NEW a \in Ages, Expired(resp, -1, now)
               PROVE  Expired(resp, a, now)
    BY DEF RequestOnlyTightens
  <2>1. /\ now \in Nat /\ resp.date \in Nat /\ resp.expires \in Int
        /\ resp.maxAge \in Int /\ resp.maxAge >= -1 /\ a \in Nat
    BY AgesAssumption DEF TypeOK
  <2> QED  BY <2>1 DEF Expired, MinMaxAge
<1> QED  BY <1>1, FreshnessTypes, PTL

(* The expiry time that receiveLog announces is kept by checkExpire: a        *)
(* response is sent directly after it only when another one was judged.      *)
THEOREM LoggedExpiryIsKept == Spec => []LoggedExpiryHolds
<1>1. TypeOK => LoggedExpiryHolds
  <2> SUFFICES ASSUME TypeOK, NEW q \in Requests, LoggedExpiry(resp) # None,
                      now >= LoggedExpiry(resp)
               PROVE  ~ServedDirectly(resp, resp, q, now)
    BY DEF LoggedExpiryHolds
  <2>1. /\ now \in Nat /\ resp.date \in Nat /\ resp.expires \in Int
        /\ resp.maxAge \in Int /\ resp.maxAge >= -1
    BY DEF TypeOK
  <2>2. q.maxAge \in Int /\ q.maxAge >= -1
    <3>1. q.maxAge \in Ages \/ q.maxAge = -1
      BY DEF Requests
    <3>2. \A a \in Ages : a \in Nat
      BY AgesAssumption
    <3> QED  BY <3>1, <3>2
  <2>3. Expired(resp, q.maxAge, now)
    BY <2>1, <2>2 DEF Expired, MinMaxAge, LoggedExpiry
  <2> QED  BY <2>3 DEF ServedDirectly
<1> QED  BY <1>1, FreshnessTypes, PTL

(* no-store and private keep a response out of the cache, no-cache and       *)
(* must-revalidate have it validated, in whichever header they come and      *)
(* whatever checkExpire judged.                                              *)
THEOREM DirectivesAreKept == Spec => []DirectivesKept
<1>1. FInv => DirectivesKept
  BY DEF FInv, FlagsAgree, DirectivesKept, ServedDirectly, NeedsValidation
<1> QED  BY <1>1, FreshnessInvariance, PTL

-----------------------------------------------------------------------------
(* The numbers are those of the last header that declares each.              *)

IsLast(i, S) == i \in S /\ \A j \in S : j <= i

NumbersAgree ==
    /\ resp.date = Received
    /\ \/ Named("Expires") = {} /\ resp.expires = 0
       \/ \E i \in Named("Expires") :
             IsLast(i, Named("Expires")) /\ resp.expires = DateOf(headers[i])
    /\ \/ DeclaresAge = {} /\ resp.maxAge = -1
       \/ \E i \in DeclaresAge :
             IsLast(i, DeclaresAge) /\ resp.maxAge = headers[i].maxAge

(* One header more is behind the others.                                     *)
LEMMA AppendHeader ==
    ASSUME NEW h \in Headers, headers \in Seq(Headers), headers' = Append(headers, h)
    PROVE  \E n \in Nat :
              /\ \A i \in 1 .. n : headers'[i] = headers[i]
              /\ headers'[n + 1] = h
              /\ DOMAIN headers = 1 .. n
              /\ \A name : Named(name) \subseteq 1 .. n
              /\ \A name : Named(name)' = Named(name) \cup (IF h.name = name THEN {n + 1} ELSE {})
              /\ DeclaresAge \subseteq 1 .. n
              /\ DeclaresAge' = DeclaresAge \cup
                    (IF h.name = "Cache-Control" /\ h.maxAge # None THEN {n + 1} ELSE {})
<1> DEFINE n == Len(headers)
<1>1. /\ n \in Nat /\ DOMAIN headers = 1 .. n /\ DOMAIN headers' = 1 .. n + 1
      /\ \A i \in 1 .. n : i \in 1 .. n + 1 /\ headers'[i] = headers[i]
      /\ n + 1 \in 1 .. n + 1 /\ headers'[n + 1] = h
      /\ \A i \in 1 .. n + 1 : i = n + 1 \/ i \in 1 .. n
      /\ n + 1 \notin 1 .. n
  OBVIOUS
<1> HIDE DEF n
<1>2. \A name : Named(name) \subseteq 1 .. n
  BY <1>1 DEF Named
<1>3. \A name : Named(name)' = Named(name) \cup (IF h.name = name THEN {n + 1} ELSE {})
  BY <1>1 DEF Named
<1>4. DeclaresAge \subseteq 1 .. n
  BY <1>2 DEF DeclaresAge
<1>5. DeclaresAge' = DeclaresAge \cup
         (IF h.name = "Cache-Control" /\ h.maxAge # None THEN {n + 1} ELSE {})
  <2>1. DeclaresAge' = {i \in Named("Cache-Control")' : headers'[i].maxAge # None}
    BY DEF DeclaresAge
  <2>2. \A i \in Named("Cache-Control") : headers'[i] = headers[i]
    BY <1>1, <1>2
  <2> QED  BY <1>1, <1>3, <2>1, <2>2 DEF DeclaresAge
<1> QED  BY <1>1, <1>2, <1>3, <1>4, <1>5

LEMMA NumbersAppend ==
    ASSUME TypeOK, NumbersAgree, NEW h \in Headers, ReadHeader(h)
    PROVE  NumbersAgree'
<1>1. headers \in Seq(Headers) /\ headers' = Append(headers, h) /\ resp' = Read(resp, h)
      /\ now' = now
  BY DEF ReadHeader, TypeOK
<1>2. PICK n \in Nat :
         /\ \A i \in 1 .. n : headers'[i] = headers[i]
         /\ headers'[n + 1] = h
         /\ \A name : Named(name) \subseteq 1 .. n
         /\ \A name : Named(name)' = Named(name) \cup (IF h.name = name THEN {n + 1} ELSE {})
         /\ DeclaresAge \subseteq 1 .. n
         /\ DeclaresAge' = DeclaresAge \cup
               (IF h.name = "Cache-Control" /\ h.maxAge # None THEN {n + 1} ELSE {})
  BY <1>1, AppendHeader
<1>3. \A S : S \subseteq 1 .. n => IsLast(n + 1, S \cup {n + 1})
  BY DEF IsLast
<1>4. /\ resp \in [date : Nat, expires : Int, maxAge : Int,
                   noStore : BOOLEAN, noCache : BOOLEAN]
      /\ h.name \in {"Cache-Control", "Expires", "Date"}
  BY DEF TypeOK, Headers
<1>5. /\ resp'.date = IF h.name = "Date" THEN now ELSE resp.date
      /\ resp'.expires = IF h.name = "Expires" THEN DateOf(h) ELSE resp.expires
      /\ resp'.maxAge = IF h.name = "Cache-Control" /\ h.maxAge # None
                        THEN h.maxAge ELSE resp.maxAge
  BY <1>1, <1>4 DEF Read
<1>6. (resp.date = Received)'
  <2>1. CASE h.name = "Date"
    <3>1. dated \in Seq(Nat) /\ dated' = Append(dated, now)
      BY <2>1 DEF ReadHeader, TypeOK
    <3>2. dated' # << >> /\ dated'[Len(dated')] = now
      BY <3>1
    <3> QED  BY <1>5, <2>1, <3>2 DEF Received
  <2>2. CASE h.name # "Date"
    BY <1>5, <2>2 DEF NumbersAgree, Received, ReadHeader
  <2> QED  BY <2>1, <2>2
<1>7. \/ Named("Expires")' = {} /\ resp'.expires = 0
      \/ \E i \in Named("Expires")' :
            IsLast(i, Named("Expires")') /\ resp'.expires = DateOf(headers'[i])
  <2>1. CASE h.name = "Expires"
    BY <1>2, <1>3, <1>5, <2>1
  <2>2. CASE h.name # "Expires"
    <3>1. Named("Expires")' = Named("Expires") /\ resp'.expires = resp.expires
      BY <1>2, <1>5, <2>2
    <3>2. \A i \in Named("Expires") : headers'[i] = headers[i]
      BY <1>2
    <3> QED  BY <3>1, <3>2 DEF NumbersAgree
  <2> QED  BY <2>1, <2>2
<1>8. \/ DeclaresAge' = {} /\ resp'.maxAge = -1
      \/ \E i \in DeclaresAge' :
            IsLast(i, DeclaresAge') /\ resp'.maxAge = headers'[i].maxAge
  <2>1. CASE h.name = "Cache-Control" /\ h.maxAge # None
    BY <1>2, <1>3, <1>5, <2>1
  <2>2. CASE ~(h.name = "Cache-Control" /\ h.maxAge # None)
    <3>1. DeclaresAge' = DeclaresAge /\ resp'.maxAge = resp.maxAge
      BY <1>2, <1>5, <2>2
    <3>2. \A i \in DeclaresAge : headers'[i] = headers[i]
      BY <1>2
    <3> QED  BY <3>1, <3>2 DEF NumbersAgree
  <2> QED  BY <2>1, <2>2
<1> QED
  BY <1>6, <1>7, <1>8 DEF NumbersAgree, IsLast

LEMMA NumbersStep == TypeOK /\ NumbersAgree /\ [Next]_vars => NumbersAgree'
<1> SUFFICES ASSUME TypeOK, NumbersAgree, [Next]_vars PROVE NumbersAgree'
  OBVIOUS
<1>1. ASSUME NEW h \in Headers, ReadHeader(h) PROVE NumbersAgree'
  BY <1>1, NumbersAppend
<1>2. CASE NextResponse
  <2>1. DOMAIN headers' = {} /\ dated' = << >> /\ resp' = Undeclared
    BY <1>2 DEF NextResponse
  <2>2. Named("Expires")' = {} /\ DeclaresAge' = {} /\ Received' = 0
    BY <2>1 DEF Named, DeclaresAge, Received
  <2> QED  BY <2>1, <2>2, UndeclaredTypes DEF NumbersAgree
<1>3. CASE UNCHANGED <<headers, dated, resp>>
  BY <1>3 DEF NumbersAgree, Named, DeclaresAge, IsLast, Received
<1>4. CASE Put \/ Tick \/ UNCHANGED vars
  BY <1>3, <1>4 DEF Put, Tick, vars
<1> QED  BY <1>1, <1>2, <1>4 DEF Next

(* The last of S is found.                                                   *)
LEMMA LastOfIs ==
    ASSUME NEW S, S \subseteq Nat, NEW i, IsLast(i, S)
    PROVE  LastOf(S) = i
<1>1. \A k \in S : (\A j \in S : j <= k) => k = i
  BY DEF IsLast
<1> QED  BY <1>1 DEF LastOf, IsLast

LEMMA JudgesRight ==
    ASSUME TypeOK, NumbersAgree
    PROVE  ExpiredIsRight
<1> SUFFICES ASSUME 0 \notin {headers[i].at : i \in Named("Expires")}, NEW a \in Ages \cup {-1}
             PROVE  Expired(resp, a, now) <=>
                       PastItsDate \/ PastItsAge \/ (a # -1 /\ Outlived(a))
  BY DEF ExpiredIsRight
<1>1. /\ now \in Nat /\ resp.date \in Nat /\ resp.expires \in Int /\ resp.maxAge \in Int
  BY DEF TypeOK
<1>2. /\ DOMAIN headers \subseteq Nat
      /\ \A i \in DOMAIN headers : headers[i] \in Headers
  BY DEF TypeOK
<1>3. \A b \in Ages : b \in Nat
  BY AgesAssumption
<1>4. ASSUME NEW b \in Ages
      PROVE  now - resp.date >= b <=> Outlived(b)
  <2>1. Outlived(b) <=> now >= resp.date + b
    BY DEF Outlived, NumbersAgree
  <2>2. b \in Nat
    BY <1>3
  <2> QED  BY <1>1, <2>1, <2>2
<1>5. (now < resp.expires \/ resp.expires = 0) <=> ~PastItsDate
  <2>1. CASE Named("Expires") = {} /\ resp.expires = 0
    BY <2>1 DEF PastItsDate
  <2>2. ASSUME NEW i \in Named("Expires"), IsLast(i, Named("Expires")),
               resp.expires = DateOf(headers[i])
        PROVE  (now < resp.expires \/ resp.expires = 0) <=> ~PastItsDate
    <3>1. LastOf(Named("Expires")) = i
      BY <1>2, <2>2, LastOfIs DEF Named
    <3>2. headers[i].at # 0 /\ headers[i].at \in Dates \cup {None}
      BY <1>2 DEF Named, Headers
    <3>3. PastItsDate <=> headers[i].at = None \/ now >= headers[i].at
      BY <3>1 DEF PastItsDate
    <3>4. CASE headers[i].at = None
      BY <1>1, <2>2, <3>3, <3>4 DEF DateOf
    <3>5. CASE headers[i].at # None
      <4>1. headers[i].at \in Nat
        BY <3>2, <3>5, DatesAssumption
      <4> QED  BY <1>1, <2>2, <3>2, <3>3, <3>5, <4>1 DEF DateOf
    <3> QED  BY <3>4, <3>5
  <2> QED  BY <2>1, <2>2 DEF NumbersAgree
<1>6. \/ resp.maxAge = -1 /\ ~PastItsAge
      \/ resp.maxAge \in Ages /\ (PastItsAge <=> Outlived(resp.maxAge))
  <2>1. CASE DeclaresAge = {} /\ resp.maxAge = -1
    BY <2>1 DEF PastItsAge
  <2>2. ASSUME NEW i \in DeclaresAge, IsLast(i, DeclaresAge),
               resp.maxAge = headers[i].maxAge
        PROVE  resp.maxAge \in Ages /\ (PastItsAge <=> Outlived(resp.maxAge))
    <3>1. LastOf(DeclaresAge) = i
      BY <1>2, <2>2, LastOfIs DEF DeclaresAge, Named
    <3>2. headers[i].maxAge \in Ages
      BY <1>2 DEF DeclaresAge, Named, Headers
    <3> QED  BY <2>2, <3>1, <3>2 DEF PastItsAge
  <2> QED  BY <2>1, <2>2 DEF NumbersAgree
<1> DEFINE age == MinMaxAge(resp.maxAge, a)
<1>7. (now - resp.date < age \/ age = -1) <=> ~(PastItsAge \/ (a # -1 /\ Outlived(a)))
  <2>1. CASE a = -1
    BY <1>1, <1>3, <1>4, <1>6, <2>1 DEF MinMaxAge
  <2>2. CASE a \in Ages
    <3>1. a \in Nat /\ (now - resp.date >= a <=> Outlived(a))
      BY <1>3, <1>4, <2>2
    <3>2. CASE resp.maxAge = -1 /\ ~PastItsAge
      BY <1>1, <3>1, <3>2 DEF MinMaxAge
    <3>3. CASE resp.maxAge \in Ages /\ (PastItsAge <=> Outlived(resp.maxAge))
      <4>1. resp.maxAge \in Nat /\ (now - resp.date >= resp.maxAge <=> PastItsAge)
        BY <1>3, <1>4, <3>3
      <4> QED  BY <1>1, <3>1, <4>1 DEF MinMaxAge
    <3> QED  BY <1>6, <3>2, <3>3
  <2> QED  BY <2>1, <2>2
<1> QED  BY <1>5, <1>7 DEF Expired

(* checkExpire's verdict is the one that the headers call for, for every     *)
(* sequence of them, every clock and every request.                          *)
THEOREM ExpiryIsRight == Spec => []ExpiredIsRight
<1>1. Init => NumbersAgree
  <2> SUFFICES ASSUME Init PROVE NumbersAgree
    OBVIOUS
  <2>1. DOMAIN headers = {} /\ dated = << >> /\ resp = Undeclared
    BY DEF Init
  <2>2. Named("Expires") = {} /\ DeclaresAge = {} /\ Received = 0
    BY <2>1 DEF Named, DeclaresAge, Received
  <2> QED  BY <2>1, <2>2, UndeclaredTypes DEF NumbersAgree
<1>2. TypeOK /\ NumbersAgree => ExpiredIsRight
  BY JudgesRight
<1> QED  BY <1>1, <1>2, NumbersStep, FreshnessTypes, PTL DEF Spec
=============================================================================
