----------------------------- MODULE MCTokenCache -----------------------------
(* TokenCache on small instances. *)
EXTENDS TokenCache, TLC

Symmetry ==
  Permutations(Tokens) \union Permutations(Raws)
    \union Permutations(Calls)
=============================================================================
