------------------------------ MODULE MCProxy ------------------------------
(***************************************************************************)
(* Small instances of Proxy for TLC.                                       *)
(***************************************************************************)
EXTENDS Proxy

\* Threads name the responses they allocate; memory and urls are only
\* compared.  Used for invariants only.
Symmetry == Permutations(Threads) \cup Permutations(Urls) \cup Permutations(Entries)
=============================================================================
