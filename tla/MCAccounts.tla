------------------------------ MODULE MCAccounts ------------------------------
(* Accounts on small instances: browsers, links and codes are interchangeable. *)
EXTENDS Accounts, TLC

Symmetry == Permutations(Browsers) \union Permutations(Links) \union Permutations(Codes)

InPlay ==
  {f \in {"links", "failures", "mfa", "policy", "rehash"} :
     \/ f = "links" /\ \E l \in Links : link[l] # "none"
     \/ f = "failures" /\ (user.failed > 0 \/ user.lock # "none")
     \/ f = "mfa" /\ issued # {}
     \/ f = "policy" /\ policy # {}
     \/ f = "rehash" /\ user.old}

(* Bound: states with three of these features in play, or two of them after a
   request acted late, are not explored further. *)
Bounded == Cardinality(InPlay) + Cardinality(late) <= 2
=============================================================================
