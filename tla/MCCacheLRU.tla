----------------------------- MODULE MCCacheLRU -----------------------------
EXTENDS CacheLRU

\* As in MCCache; LRUPromise is a safety property.
Symmetry ==
    Permutations(Threads) \cup Permutations(Urls)
        \cup Permutations(Responses) \cup Permutations(Entries)
=============================================================================
