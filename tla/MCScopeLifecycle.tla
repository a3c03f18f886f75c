--------------------------- MODULE MCScopeLifecycle ---------------------------
(* ScopeLifecycle on small instances: people, requests and contents are
   interchangeable, and the first state picks among them symmetrically. *)
EXTENDS ScopeLifecycle, TLC

Symmetry ==
  Permutations(Sessions) \union Permutations(Users)
    \union Permutations(Heads) \union Permutations(Texts)
=============================================================================
