------------------------------ MODULE MCCache ------------------------------
(***************************************************************************)
(* Small instances of Cache for TLC.                                       *)
(***************************************************************************)
EXTENDS Cache

\* Threads, urls, responses and memory are only compared for equality, and no
\* liveness property is checked under this symmetry.
Symmetry ==
    Permutations(Threads) \cup Permutations(Urls)
        \cup Permutations(Responses) \cup Permutations(Entries)
=============================================================================
