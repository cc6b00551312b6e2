---------------------------- MODULE MCFetchCache ----------------------------
(* Model-checking instance of FetchCache: two cache entries, two RAM pages *)
(* that alias in entry 0, a ROM page, a peripheral page and an unmapped   *)
(* page; words 0 and 1; the Zero fill policy.                             *)
EXTENDS FetchCache

MCRomImage == [p \in {1} |-> 1]
=============================================================================
