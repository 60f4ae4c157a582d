------------------------------ MODULE LRUCache ------------------------------
(***************************************************************************)
(* What the cache promises, without lists, iterators or locks: it holds    *)
(* exactly the Capacity urls used last, each with the response put last.   *)
(* A url is used when it is put, and when it is looked up and found.       *)
(* There is no eviction here: a url leaves the cache when Capacity others  *)
(* have been used since.                                                   *)
(***************************************************************************)
EXTENDS Naturals

CONSTANTS Urls, Responses, Capacity, NULL

VARIABLES
    age,     \* of each url: how many others have been used since it was,
             \* up to Capacity; Capacity too for a url never used
    stored,  \* the response put last under each url
    cached   \* what a lookup of each url gives, NULL for nothing

vars == <<age, stored, cached>>

Recent(ages, resp) ==
    [u \in Urls |-> IF ages[u] < Capacity THEN resp[u] ELSE NULL]

\* u is used: every url used after u was has one more used since.
Touch(ages, u) ==
    [v \in Urls |->
        IF v = u THEN 0 ELSE IF ages[v] < ages[u] THEN ages[v] + 1 ELSE ages[v]]

Init ==
    /\ age = [u \in Urls |-> Capacity]
    /\ stored = [u \in Urls |-> NULL]
    /\ cached = [u \in Urls |-> NULL]

Hit(u) ==
    /\ cached[u] # NULL
    /\ age' = Touch(age, u)
    /\ UNCHANGED <<stored, cached>>

Put(u, r) ==
    /\ age' = Touch(age, u)
    /\ stored' = [stored EXCEPT ![u] = r]
    /\ cached' = Recent(age', stored')

Next == \E u \in Urls : Hit(u) \/ \E r \in Responses : Put(u, r)

Spec == Init /\ [][Next]_vars
=============================================================================
